---- MODULE Spec2Model ----
(***************************************************************************)
(* Flow extraction and noise reduction of the Intelligent User Flow        *)
(* Mapper: flowExtractor.extractFlows, noiseReducer.reduceNoise and the    *)
(* stages of flowMapper.crawlAndExtractFlows that call them.               *)
(*                                                                         *)
(* URLs are numbers; UrlText gives the characters of a URL so that the     *)
(* string operations of the code (join, includes, endsWith) are computed   *)
(* on characters.  Lengths of titles and anchor texts stand for the        *)
(* strings, since the code reads nothing but their length.  Confidence     *)
(* values are kept in tenths (0.7 is 7).                                   *)
(***************************************************************************)
EXTENDS Integers, Sequences, FiniteSets, TLC

VARIABLES
  pages,          \* analyzedPages: the classified pages, in crawl order
  startUrl,       \* the start URL handed to extractFlows
  rawFlows,       \* the flow list handed to reduceNoise
  cleanedFlows,   \* the value returned by reduceNoise(rawFlows, pages)
  recleanedFlows, \* the value returned by reduceNoise(cleanedFlows, pages)
  abortSignal,    \* the caller's abort signal, Null when none was passed
  error,          \* the name of the error crawlAndExtractFlows threw, or "none"
  search,         \* the loop of a detector in progress, Null outside a search
  pc,             \* position in the pipeline
  config,         \* crawlWebsite: maxDepth, maxPages, maxRetries; Null outside a crawl
  crawlQueue,     \* crawlWebsite: queue, the items { url, depth, referrer } to crawl
  crawlVisited,   \* crawlWebsite: visited, the visit keys of the URLs taken off the queue
  fetch,          \* the queue item being fetched and its attempt, Null between fetches
  activeJobs,     \* server: the job ids that have an AbortController
  activeLogs,     \* server: the log record { done } of each job id
  jobId,          \* server: the jobId of the body of the extract-flows request, or Null
  res             \* server: the status the extract-flows request was answered with, or Null

crawlerVars == <<config, crawlQueue, crawlVisited, fetch>>

serverVars == <<activeJobs, activeLogs, jobId, res>>

vars == <<pages, startUrl, rawFlows, cleanedFlows, recleanedFlows, abortSignal, error,
          search, pc, crawlerVars, serverVars>>

-----------------------------------------------------------------------------
(* Bounds of the model *)

NumUrls == 3          \* crawled URLs of the extraction runs are 1..NumUrls
MaxLinks == 3         \* links on all pages of a site, in total
NumNoiseUrls == 3     \* URLs on the paths of a flow list handed to reduceNoise
MaxListPathLen == 3   \* longest path in a flow list handed to reduceNoise
MaxFlows == 2         \* longest flow list handed to reduceNoise
MaxPathLen == 6       \* longest path of a single flow handed to reduceNoise

-----------------------------------------------------------------------------
(* Sequences *)

Range(s) == { s[i] : i \in DOMAIN s }

RECURSIVE SeqsOfLen(_, _)
SeqsOfLen(S, n) ==
  IF n = 0 THEN { <<>> }
  ELSE { Append(s, x) : s \in SeqsOfLen(S, n - 1), x \in S }

SeqsUpTo(S, lo, hi) == UNION { SeqsOfLen(S, n) : n \in lo..hi }

RECURSIVE Concat(_)
Concat(ss) == IF ss = <<>> THEN <<>> ELSE Head(ss) \o Concat(Tail(ss))

\* null and undefined: the result of a search that found nothing, a missing
\* argument
Null == <<>>

\* no crawl is in progress
CrawlerIdle ==
  /\ config = Null
  /\ crawlQueue = <<>>
  /\ crawlVisited = {}
  /\ fetch = Null

NotAnswered == 0      \* neither res.json nor res.status(...).json was called

NoJobId == ""         \* a request body without jobId

\* no request has reached the server
ServerIdle ==
  /\ activeJobs = {}
  /\ activeLogs = <<>>
  /\ jobId = NoJobId
  /\ res = NotAnswered

-----------------------------------------------------------------------------
(* URLs and their text *)

Uncrawled == 0        \* a URL of the site that is not among the crawled pages

\* the characters of a URL: "/" stands for the origin every URL of the site
\* starts with, the rest is the path
UrlText(u) ==
  IF u = Uncrawled THEN <<"/", "b">>
  ELSE <<"/">> \o [i \in 1..(u - 1) |-> "a"]

\* the separator of Array.prototype.join in the path signatures; the arrow
\* character of the source, which no URL contains
Sep == "|"

\* path.join(Sep)
RECURSIVE JoinPath(_)
JoinPath(path) ==
  IF path = <<>> THEN <<>>
  ELSE IF Len(path) = 1 THEN UrlText(path[1])
  ELSE UrlText(path[1]) \o <<Sep>> \o JoinPath(Tail(path))

\* String.prototype.includes
Includes(str, sub) ==
  \E k \in 0..(Len(str) - Len(sub)) : SubSeq(str, k + 1, k + Len(sub)) = sub

-----------------------------------------------------------------------------
(* noiseReducer *)

\* analyzedPages.find(p => p.url === url), then page ? page.pageType : 'unknown'
RECURSIVE PageTypeOf(_, _)
PageTypeOf(analyzedPages, url) ==
  IF analyzedPages = <<>> THEN "unknown"
  ELSE IF Head(analyzedPages).url = url THEN Head(analyzedPages).pageType
  ELSE PageTypeOf(Tail(analyzedPages), url)

PathPageTypes(flow, analyzedPages) ==
  [i \in 1..Len(flow.path) |-> PageTypeOf(analyzedPages, flow.path[i])]

RECURSIVE removeDuplicateFlowsFrom(_, _)
removeDuplicateFlowsFrom(flows, seen) ==
  IF flows = <<>> THEN <<>>
  ELSE LET signature == JoinPath(Head(flows).path)
       IN IF signature \notin seen
          THEN <<Head(flows)>> \o removeDuplicateFlowsFrom(Tail(flows), seen \cup {signature})
          ELSE removeDuplicateFlowsFrom(Tail(flows), seen)

\* mutant: the last candidate of each signature is kept instead of the first
removeDuplicateFlowsKeepLast(flows) ==
  LET lasts == { i \in DOMAIN flows :
                   \A j \in (i + 1)..Len(flows) : JoinPath(flows[j].path) # JoinPath(flows[i].path) }
      RECURSIVE Pick(_)
      Pick(i) == IF i > Len(flows) THEN <<>>
                 ELSE (IF i \in lasts THEN <<flows[i]>> ELSE <<>>) \o Pick(i + 1)
  IN Pick(1)

removeDuplicateFlows(flows) == removeDuplicateFlowsFrom(flows, {})

\* flow.path.every((url, idx) => otherFlow.path[idx] === url) under the
\* length test before it
IsSubsetOf(flow, otherFlow) ==
  /\ Len(flow.path) < Len(otherFlow.path)
  /\ \A idx \in 1..Len(flow.path) : otherFlow.path[idx] = flow.path[idx]

\* mutant: a flow is compared with the flows before it only
removeSubsetFlowsEarlierOnly(flows) ==
  LET isSubset(i) == \E j \in 1..(i - 1) : IsSubsetOf(flows[i], flows[j])
      kept == { i \in 1..Len(flows) : ~isSubset(i) }
      RECURSIVE Pick(_)
      Pick(i) == IF i > Len(flows) THEN <<>>
                 ELSE (IF i \in kept THEN <<flows[i]>> ELSE <<>>) \o Pick(i + 1)
  IN Pick(1)

removeSubsetFlows(flows) ==
  LET isSubset(i) == \E j \in 1..Len(flows) : j # i /\ IsSubsetOf(flows[i], flows[j])
      kept == { i \in 1..Len(flows) : ~isSubset(i) }
      RECURSIVE Pick(_)
      Pick(i) == IF i > Len(flows) THEN <<>>
                 ELSE (IF i \in kept THEN <<flows[i]>> ELSE <<>>) \o Pick(i + 1)
  IN Pick(1)

\* mutant: content is counted once, as in the Set of the diversity score
ContentPageCountDistinct(flow, analyzedPages) ==
  IF "content" \in Range(PathPageTypes(flow, analyzedPages)) THEN 1 ELSE 0

ContentPageCount(flow, analyzedPages) ==
  Cardinality({ i \in 1..Len(flow.path) : PathPageTypes(flow, analyzedPages)[i] = "content" })

\* mutant: the lenient threshold of short flows is applied to every flow
KeepsGenericLenient(flow, analyzedPages) ==
  LET n == Len(flow.path)
      c == ContentPageCount(flow, analyzedPages)
  IN IF n = 0 THEN FALSE ELSE 10 * c < 9 * n

\* ratio < 0.9 and ratio < 0.7 with ratio = contentPageCount / path.length,
\* in tenths; 0 / 0 is NaN, which is below nothing
KeepsGeneric(flow, analyzedPages) ==
  LET n == Len(flow.path)
      c == ContentPageCount(flow, analyzedPages)
  IN IF n = 0 THEN FALSE
     ELSE IF n <= 2 THEN 10 * c < 9 * n
     ELSE 10 * c < 7 * n

removeGenericFlows(flows, analyzedPages) ==
  LET Keep(flow) == KeepsGeneric(flow, analyzedPages)
  IN SelectSeq(flows, Keep)

\* mutant: only a path that returns to its first URL counts as circular
IsCircularReturnToStart(flow) ==
  Len(flow.path) > 1 /\ flow.path[1] = flow.path[Len(flow.path)]

IsCircular(flow) == Cardinality(Range(flow.path)) # Len(flow.path)

removeCircularFlows(flows) ==
  LET Keep(flow) == ~IsCircular(flow)
  IN SelectSeq(flows, Keep)

Min(a, b) == IF a < b THEN a ELSE b

GoalTypes == {"checkout", "contact", "login", "signup"}

\* mutant: the table is keyed by the pattern name 'auth'
typePriorityAuthKey(type) ==
  CASE type = "ecommerce" -> 30
    [] type = "auth" -> 25
    [] type = "support" -> 20
    [] type = "navigation" -> 15
    [] type = "content" -> 10
    [] OTHER -> 0

typePriority(type) ==
  CASE type = "ecommerce" -> 30
    [] type = "authentication" -> 25
    [] type = "support" -> 20
    [] type = "navigation" -> 15
    [] type = "content" -> 10
    [] OTHER -> 0

\* mutant: the length score is not capped at 50
FlowScoreUncapped(flow, analyzedPages) ==
  LET lengthScore == IF Len(flow.path) = 2 THEN 25 ELSE Len(flow.path) * 10
      pageTypes == PathPageTypes(flow, analyzedPages)
      hasGoalPage == \E i \in DOMAIN pageTypes : pageTypes[i] \in GoalTypes
  IN lengthScore
     + Cardinality(Range(pageTypes)) * 5
     + (IF hasGoalPage THEN 20 ELSE 0)
     + typePriority(flow.type)
     + (IF Len(flow.path) > 1 THEN 5 ELSE 0)

FlowScore(flow, analyzedPages) ==
  LET lengthScore == IF Len(flow.path) = 2 THEN 25 ELSE Min(Len(flow.path) * 10, 50)
      pageTypes == PathPageTypes(flow, analyzedPages)
      uniqueTypes == Range(pageTypes)
      hasGoalPage == \E i \in DOMAIN pageTypes : pageTypes[i] \in GoalTypes
      hasSubstantialText == Len(flow.path) > 1
  IN lengthScore
     + Cardinality(uniqueTypes) * 5
     + (IF hasGoalPage THEN 20 ELSE 0)
     + typePriority(flow.type)
     + (IF hasSubstantialText THEN 5 ELSE 0)

\* { ...flow, score }
WithScore(flow, score) ==
  [k \in DOMAIN flow \cup {"score"} |-> IF k = "score" THEN score ELSE flow[k]]

\* Array.prototype.sort is stable: an element goes behind every element the
\* comparator (b.score - a.score) does not put it before
RECURSIVE InsertByScore(_, _)
InsertByScore(sorted, flow) ==
  IF sorted = <<>> THEN <<flow>>
  ELSE IF Head(sorted).score - flow.score < 0 THEN <<flow>> \o sorted
  ELSE <<Head(sorted)>> \o InsertByScore(Tail(sorted), flow)

\* flows.sort((a, b) => b.score - a.score)
RECURSIVE SortByScore(_)
SortByScore(flows) ==
  IF flows = <<>> THEN <<>>
  ELSE InsertByScore(SortByScore(SubSeq(flows, 1, Len(flows) - 1)), flows[Len(flows)])

Reverse(s) == [i \in 1..Len(s) |-> s[Len(s) + 1 - i]]

\* mutant: the score is added to the score the flow already carries
scoreAndRankFlowsAccumulating(flows, analyzedPages) ==
  LET prior(flow) == IF "score" \in DOMAIN flow THEN flow.score ELSE 0
      scored == [i \in 1..Len(flows) |->
                   WithScore(flows[i], prior(flows[i]) + FlowScore(flows[i], analyzedPages))]
  IN SortByScore(scored)

\* mutant: the comparator is a.score - b.score, lowest score first
scoreAndRankFlowsAscending(flows, analyzedPages) ==
  LET scored == [i \in 1..Len(flows) |-> WithScore(flows[i], FlowScore(flows[i], analyzedPages))]
  IN Reverse(SortByScore(Reverse(scored)))

scoreAndRankFlows(flows, analyzedPages) ==
  LET scored == [i \in 1..Len(flows) |-> WithScore(flows[i], FlowScore(flows[i], analyzedPages))]
  IN SortByScore(scored)

\* the list handed to the scorer
\* mutant: subset removal runs last, after the circular flows are gone
FilteredFlowsSubsetLast(flows, analyzedPages) ==
  removeSubsetFlows(removeCircularFlows(removeGenericFlows(removeDuplicateFlows(flows), analyzedPages)))

\* steps 1 to 4 of reduceNoise
FilteredFlows(flows, analyzedPages) ==
  removeCircularFlows(removeGenericFlows(removeSubsetFlows(removeDuplicateFlows(flows)), analyzedPages))

reduceNoise(flows, analyzedPages) ==
  scoreAndRankFlows(FilteredFlows(flows, analyzedPages), analyzedPages)

-----------------------------------------------------------------------------
(* flowExtractor: graph and entry points *)

NoStartUrl == -1      \* extractFlows called without a start URL

AllLinks(page) == page.links.contextual \o page.links.global

\* graph.set(page.url, ..) of the first pass: a later page of the same URL
\* replaces the earlier one
NodePage(analyzedPages, url) ==
  analyzedPages[CHOOSE i \in DOMAIN analyzedPages :
                  /\ analyzedPages[i].url = url
                  /\ \A j \in (i + 1)..Len(analyzedPages) : analyzedPages[j].url # url]

\* mutant: an edge is pushed for every link, whether or not its target is a
\* node
RECURSIVE EdgesOfLinksUnchecked(_, _)
EdgesOfLinksUnchecked(links, analyzedPages) ==
  IF links = <<>> THEN <<>>
  ELSE << [target |-> Head(links).href,
           text |-> Head(links).text,
           targetType |-> PageTypeOf(analyzedPages, Head(links).href),
           linkType |-> Head(links).linkType] >>
       \o EdgesOfLinksUnchecked(Tail(links), analyzedPages)

\* the edges the second pass pushes for one page: one per link, in link
\* order, whose target is a node
RECURSIVE EdgesOfLinks(_, _)
EdgesOfLinks(links, analyzedPages) ==
  IF links = <<>> THEN <<>>
  ELSE LET link == Head(links)
           known == \E i \in DOMAIN analyzedPages : analyzedPages[i].url = link.href
       IN (IF known
           THEN << [target |-> link.href,
                    text |-> link.text,
                    targetType |-> NodePage(analyzedPages, link.href).pageType,
                    linkType |-> link.linkType] >>
           ELSE <<>>)
          \o EdgesOfLinks(Tail(links), analyzedPages)

\* the edges pushed on the node of url, over all pages in page order
RECURSIVE NodeEdges(_, _, _)
NodeEdges(analyzedPages, url, i) ==
  IF i > Len(analyzedPages) THEN <<>>
  ELSE (IF analyzedPages[i].url = url
        THEN EdgesOfLinks(AllLinks(analyzedPages[i]), analyzedPages)
        ELSE <<>>)
       \o NodeEdges(analyzedPages, url, i + 1)

\* the links of the list whose target is one of targets
RECURSIVE CountLinksTo(_, _)
CountLinksTo(links, targets) ==
  IF links = <<>> THEN 0
  ELSE (IF Head(links).href \in targets THEN 1 ELSE 0) + CountLinksTo(Tail(links), targets)

\* mutant: node.outDegree++ stands before the test of targetNode, and counts
\* every link of the page
RECURSIVE OutDegreeEveryLink(_, _, _)
OutDegreeEveryLink(analyzedPages, url, i) ==
  IF i > Len(analyzedPages) THEN 0
  ELSE (IF analyzedPages[i].url = url THEN Len(AllLinks(analyzedPages[i])) ELSE 0)
       + OutDegreeEveryLink(analyzedPages, url, i + 1)

\* the node.outDegree++ executed on the node of url by the pages i, i + 1, ..:
\* one for each link of a page of that URL whose target is a node
RECURSIVE OutDegree(_, _, _)
OutDegree(analyzedPages, url, i) ==
  IF i > Len(analyzedPages) THEN 0
  ELSE (IF analyzedPages[i].url = url
        THEN CountLinksTo(AllLinks(analyzedPages[i]),
                          { analyzedPages[j].url : j \in DOMAIN analyzedPages })
        ELSE 0)
       + OutDegree(analyzedPages, url, i + 1)

\* the targetNode.inDegree++ executed on the node of url by the pages i,
\* i + 1, ..: one for each link to url on any page
RECURSIVE InDegree(_, _, _)
InDegree(analyzedPages, url, i) ==
  IF i > Len(analyzedPages) THEN 0
  ELSE CountLinksTo(AllLinks(analyzedPages[i]), {url}) + InDegree(analyzedPages, url, i + 1)

buildCompleteGraph(analyzedPages) ==
  LET urls == { analyzedPages[i].url : i \in DOMAIN analyzedPages }
  IN [u \in urls |->
        [page |-> NodePage(analyzedPages, u),
         edges |-> NodeEdges(analyzedPages, u, 1),
         inDegree |-> InDegree(analyzedPages, u, 1),
         outDegree |-> OutDegree(analyzedPages, u, 1)]]

\* Set.prototype.add on a Set kept in insertion order
AddUnique(list, x) == IF x \in Range(list) THEN list ELSE Append(list, x)

\* url.endsWith('/')
EndsWithSlash(url) == UrlText(url)[Len(UrlText(url))] = "/"

\* mutant: every page of depth at most 1 is a root page, whatever its URL
\* ends in
RECURSIVE AddRootPagesAnyShallow(_, _)
AddRootPagesAnyShallow(entryPoints, analyzedPages) ==
  IF analyzedPages = <<>> THEN entryPoints
  ELSE LET page == Head(analyzedPages)
           isRoot == page.pageType = "home" \/ page.depth <= 1
       IN AddRootPagesAnyShallow(IF isRoot THEN AddUnique(entryPoints, page.url)
                                 ELSE entryPoints,
                                 Tail(analyzedPages))

RECURSIVE AddRootPages(_, _)
AddRootPages(entryPoints, analyzedPages) ==
  IF analyzedPages = <<>> THEN entryPoints
  ELSE LET page == Head(analyzedPages)
           isRoot == \/ page.pageType = "home"
                     \/ page.depth = 0
                     \/ EndsWithSlash(page.url) /\ page.depth <= 1
       IN AddRootPages(IF isRoot THEN AddUnique(entryPoints, page.url) ELSE entryPoints,
                       Tail(analyzedPages))

identifyEntryPoints(analyzedPages, start) ==
  AddRootPages(IF start # NoStartUrl THEN <<start>> ELSE <<>>, analyzedPages)

\* extractFlows lines 12-17
EntryPoints(analyzedPages, start) ==
  LET entryPoints == identifyEntryPoints(analyzedPages, start)
  IN IF entryPoints = <<>> /\ start # NoStartUrl THEN <<start>> ELSE entryPoints

-----------------------------------------------------------------------------
(* flowExtractor: pattern detectors *)

\* mutant: the search returns what the search from the first edge returns,
\* and tries no other edge
RECURSIVE findFlowByPageTypesFirstEdgeOnly(_, _, _, _, _)
findFlowByPageTypesFirstEdgeOnly(graph, url, targetTypes, visited, currentPath) ==
  IF url \notin DOMAIN graph \/ url \in visited THEN Null
  ELSE LET node == graph[url]
           path == Append(currentPath, url)
           hit == targetTypes # <<>> /\ node.page.pageType = targetTypes[1]
           remainingTypes == IF hit THEN Tail(targetTypes) ELSE targetTypes
       IN IF hit /\ remainingTypes = <<>> THEN path
          ELSE IF node.edges = <<>> THEN Null
          ELSE findFlowByPageTypesFirstEdgeOnly(graph, node.edges[1].target,
                                                remainingTypes, visited \cup {url}, path)

\* mutant: the search returns the path as soon as the current page has the
\* next target type
RECURSIVE findFlowByPageTypesFirstHit(_, _, _, _, _)
findFlowByPageTypesFirstHit(graph, url, targetTypes, visited, currentPath) ==
  IF url \notin DOMAIN graph \/ url \in visited THEN Null
  ELSE LET node == graph[url]
           path == Append(currentPath, url)
           hit == targetTypes # <<>> /\ node.page.pageType = targetTypes[1]
           RECURSIVE TryEdges(_)
           TryEdges(k) ==
             IF k > Len(node.edges) THEN Null
             ELSE LET result == findFlowByPageTypesFirstHit(graph, node.edges[k].target,
                                                            targetTypes, visited \cup {url}, path)
                  IN IF result # Null THEN result ELSE TryEdges(k + 1)
       IN IF hit THEN path ELSE TryEdges(1)

RECURSIVE findFlowByPageTypes(_, _, _, _, _)
findFlowByPageTypes(graph, url, targetTypes, visited, currentPath) ==
  IF url \notin DOMAIN graph \/ url \in visited THEN Null
  ELSE LET node == graph[url]
           path == Append(currentPath, url)
           hit == targetTypes # <<>> /\ node.page.pageType = targetTypes[1]
           remainingTypes == IF hit THEN Tail(targetTypes) ELSE targetTypes
           RECURSIVE TryEdges(_)
           TryEdges(k) ==
             IF k > Len(node.edges) THEN Null
             ELSE LET result == findFlowByPageTypes(graph, node.edges[k].target,
                                                    remainingTypes, visited \cup {url}, path)
                  IN IF result # Null THEN result ELSE TryEdges(k + 1)
       IN IF hit /\ remainingTypes = <<>> THEN path ELSE TryEdges(1)

\* flows.push({ type, name, path }) of the pattern detectors
PatternFlow(type, name, path) == [type |-> type, name |-> name, path |-> path]

\* the loop over the entry points of extractEcommerceFlows and
\* extractSupportFlows
RECURSIVE TypeChainFlows(_, _, _, _, _)
TypeChainFlows(graph, entryPoints, targetTypes, type, name) ==
  IF entryPoints = <<>> THEN <<>>
  ELSE LET flow == findFlowByPageTypes(graph, Head(entryPoints), targetTypes, {}, <<>>)
       IN (IF flow # Null /\ Len(flow) >= 2 THEN <<PatternFlow(type, name, flow)>> ELSE <<>>)
          \o TypeChainFlows(graph, Tail(entryPoints), targetTypes, type, name)

extractEcommerceFlows(graph, analyzedPages, entryPoints) ==
  TypeChainFlows(graph, entryPoints, <<"product-list", "product-detail", "checkout">>,
                 "ecommerce", "Product Purchase Flow")

extractSupportFlows(graph, analyzedPages, entryPoints) ==
  TypeChainFlows(graph, entryPoints, <<"support", "contact">>, "support", "Support Flow")

\* mutant: the flows carry the pattern name 'auth' as their type
RECURSIVE AdjacentPageFlowsAuthType(_, _, _, _, _)
AdjacentPageFlowsAuthType(graph, analyzedPages, entryUrl, pageType, name) ==
  IF analyzedPages = <<>> THEN <<>>
  ELSE LET target == Head(analyzedPages)
           hasPath == /\ entryUrl \in DOMAIN graph
                      /\ \E k \in DOMAIN graph[entryUrl].edges :
                            graph[entryUrl].edges[k].target = target.url
       IN (IF target.pageType = pageType /\ hasPath
           THEN <<PatternFlow("auth", name, <<entryUrl, target.url>>)>>
           ELSE <<>>)
          \o AdjacentPageFlowsAuthType(graph, Tail(analyzedPages), entryUrl, pageType, name)

\* loginPages.forEach / signupPages.forEach for one entry point
RECURSIVE AdjacentPageFlows(_, _, _, _, _)
AdjacentPageFlows(graph, analyzedPages, entryUrl, pageType, name) ==
  IF analyzedPages = <<>> THEN <<>>
  ELSE LET target == Head(analyzedPages)
           hasPath == /\ entryUrl \in DOMAIN graph
                      /\ \E k \in DOMAIN graph[entryUrl].edges :
                            graph[entryUrl].edges[k].target = target.url
       IN (IF target.pageType = pageType /\ hasPath
           THEN <<PatternFlow("authentication", name, <<entryUrl, target.url>>)>>
           ELSE <<>>)
          \o AdjacentPageFlows(graph, Tail(analyzedPages), entryUrl, pageType, name)

RECURSIVE extractAuthFlows(_, _, _)
extractAuthFlows(graph, analyzedPages, entryPoints) ==
  IF entryPoints = <<>> THEN <<>>
  ELSE AdjacentPageFlows(graph, analyzedPages, Head(entryPoints), "login", "Login Flow")
       \o AdjacentPageFlows(graph, analyzedPages, Head(entryPoints), "signup", "Signup Flow")
       \o extractAuthFlows(graph, analyzedPages, Tail(entryPoints))

MinLinearLength == 3  \* minLength of findLinearPaths and extractLinearFlows

\* returns the list of paths found: none or one
RECURSIVE findLinearPaths(_, _, _, _, _)
findLinearPaths(graph, url, visited, minLength, currentPath) ==
  IF url \notin DOMAIN graph \/ url \in visited THEN <<>>
  ELSE LET node == graph[url]
           path == Append(currentPath, url)
       IN IF Len(node.edges) = 1
          THEN findLinearPaths(graph, node.edges[1].target, visited \cup {url}, minLength, path)
          ELSE IF Len(path) >= minLength THEN <<path>>
          ELSE <<>>

RECURSIVE extractContentFlows(_, _, _)
extractContentFlows(graph, analyzedPages, entryPoints) ==
  IF entryPoints = <<>> THEN <<>>
  ELSE LET linearPaths == findLinearPaths(graph, Head(entryPoints), {}, MinLinearLength, <<>>)
           keep(path) == Len(path) >= 3
           long == SelectSeq(linearPaths, keep)
       IN [i \in 1..Len(long) |-> PatternFlow("content", "Content Exploration Flow", long[i])]
          \o extractContentFlows(graph, analyzedPages, Tail(entryPoints))

\* analyzedPages.find(p => p.url === url); Null when there is none
RECURSIVE FindPage(_, _)
FindPage(analyzedPages, url) ==
  IF analyzedPages = <<>> THEN Null
  ELSE IF Head(analyzedPages).url = url THEN Head(analyzedPages)
  ELSE FindPage(Tail(analyzedPages), url)

MajorTitleLength == 10   \* targetPage.title.length > 10
MajorTextLength == 5     \* edge.text.length > 5

IsMajorSection(analyzedPages, edge) ==
  LET targetPage == FindPage(analyzedPages, edge.target)
  IN /\ targetPage # Null
     /\ \/ targetPage.pageType # "content"
        \/ targetPage.title > MajorTitleLength
        \/ edge.text > MajorTextLength

\* mutant: the flow is extended by the target of the last edge of the
\* section
SpokeFlowLastEdge(graph, analyzedPages, entryUrl, section) ==
  LET targetPage == FindPage(analyzedPages, section.target)
      flowName == IF section.text # 0 THEN <<"text", section.text, "Flow">>
                  ELSE <<targetPage.pageType, "Flow">>
      edges == graph[section.target].edges
      flowPath == IF Len(edges) > 0
                  THEN <<entryUrl, section.target, edges[Len(edges)].target>>
                  ELSE <<entryUrl, section.target>>
  IN PatternFlow("navigation", flowName, flowPath)

\* the flow pushed for one major section of an entry point
SpokeFlow(graph, analyzedPages, entryUrl, section) ==
  LET targetPage == FindPage(analyzedPages, section.target)
      flowName == IF section.text # 0 THEN <<"text", section.text, "Flow">>
                  ELSE <<targetPage.pageType, "Flow">>
      extended == section.target \in DOMAIN graph /\ Len(graph[section.target].edges) > 0
      flowPath == IF extended
                  THEN <<entryUrl, section.target, graph[section.target].edges[1].target>>
                  ELSE <<entryUrl, section.target>>
  IN PatternFlow("navigation", flowName, flowPath)

\* mutant: an entry point that is not a node ends the loop over the entry
\* points (return in a for loop) instead of being skipped
RECURSIVE extractHubAndSpokeFlowsStopAtMissing(_, _, _)
extractHubAndSpokeFlowsStopAtMissing(graph, analyzedPages, entryPoints) ==
  IF entryPoints = <<>> THEN <<>>
  ELSE LET entryUrl == Head(entryPoints)
           isMajor(edge) == IsMajorSection(analyzedPages, edge)
           majorSections == SelectSeq(graph[entryUrl].edges, isMajor)
       IN IF entryUrl \notin DOMAIN graph THEN <<>>
          ELSE [i \in 1..Len(majorSections) |->
                  SpokeFlow(graph, analyzedPages, entryUrl, majorSections[i])]
               \o extractHubAndSpokeFlowsStopAtMissing(graph, analyzedPages, Tail(entryPoints))

RECURSIVE extractHubAndSpokeFlows(_, _, _)
extractHubAndSpokeFlows(graph, analyzedPages, entryPoints) ==
  IF entryPoints = <<>> THEN <<>>
  ELSE LET entryUrl == Head(entryPoints)
           isMajor(edge) == IsMajorSection(analyzedPages, edge)
           majorSections == IF entryUrl \in DOMAIN graph
                            THEN SelectSeq(graph[entryUrl].edges, isMajor)
                            ELSE <<>>
       IN [i \in 1..Len(majorSections) |->
             SpokeFlow(graph, analyzedPages, entryUrl, majorSections[i])]
          \o extractHubAndSpokeFlows(graph, analyzedPages, Tail(entryPoints))

\* node.edges.find(e => e.target === nextUrl); Null when there is none
RECURSIVE FindEdge(_, _)
FindEdge(edges, nextUrl) ==
  IF edges = <<>> THEN Null
  ELSE IF Head(edges).target = nextUrl THEN Head(edges)
  ELSE FindEdge(Tail(edges), nextUrl)

\* in tenths: 0.3, 0.2 and 0.1 are 3, 2 and 1; the sums of the floating
\* point values are ordered as these integers are
calculateFlowConfidence(graph, path) ==
  IF Len(path) < 2 THEN 0
  ELSE LET edgeScore(i) ==
             IF path[i] \notin DOMAIN graph THEN 0
             ELSE LET edge == FindEdge(graph[path[i]].edges, path[i + 1])
                  IN IF edge = Null THEN 0
                     ELSE IF edge.linkType = "contextual" THEN 2
                     ELSE IF edge.linkType = "global" THEN 1
                     ELSE 0
           RECURSIVE EdgeScores(_)
           EdgeScores(i) == IF i > Len(path) - 1 THEN 0 ELSE edgeScore(i) + EdgeScores(i + 1)
       IN Min(10, Min(3, Len(path)) + EdgeScores(1))

MaxLinearLength == 10   \* maxLength of extractLinearFlows

\* stack.push for each contextual edge whose target is not on the path
RECURSIVE PushContextual(_, _, _)
PushContextual(stack, contextualEdges, path) ==
  IF contextualEdges = <<>> THEN stack
  ELSE PushContextual(
         IF Head(contextualEdges).target \in Range(path) THEN stack
         ELSE Append(stack, [url |-> Head(contextualEdges).target,
                             path |-> Append(path, Head(contextualEdges).target)]),
         Tail(contextualEdges), path)

\* the while loop of extractLinearFlows for one entry point
RECURSIVE LinearWalk(_, _, _, _, _)
LinearWalk(graph, stack, visited, flows, minLength) ==
  IF stack = <<>> THEN flows
  ELSE LET top == stack[Len(stack)]
           rest == SubSeq(stack, 1, Len(stack) - 1)
       IN IF top.url \in visited \/ Len(top.path) > MaxLinearLength
          THEN LinearWalk(graph, rest, visited, flows, minLength)
          ELSE IF top.url \notin DOMAIN graph
          THEN LinearWalk(graph, rest, visited \cup {top.url}, flows, minLength)
          ELSE LET isContextual(e) == e.linkType = "contextual"
                   contextualEdges == SelectSeq(graph[top.url].edges, isContextual)
               IN IF contextualEdges = <<>> /\ Len(top.path) >= minLength
                  THEN LinearWalk(graph, rest, visited \cup {top.url},
                                  Append(flows, [type |-> "linear",
                                                 path |-> top.path,
                                                 confidence |-> calculateFlowConfidence(graph, top.path)]),
                                  minLength)
                  ELSE LinearWalk(graph, PushContextual(rest, contextualEdges, top.path),
                                  visited \cup {top.url}, flows, minLength)

RECURSIVE extractLinearFlows(_, _, _, _)
extractLinearFlows(graph, analyzedPages, entryPoints, minLength) ==
  IF entryPoints = <<>> THEN <<>>
  ELSE LinearWalk(graph, << [url |-> Head(entryPoints), path |-> <<Head(entryPoints)>>] >>,
                  {}, <<>>, minLength)
       \o extractLinearFlows(graph, analyzedPages, Tail(entryPoints), minLength)

MaxConnectedLength == 5      \* maxPathLength of findConnectedPaths
ConnectedConfidence == 7     \* confidence: 0.7

\* the loop over j of findConnectedPaths for one dequeued item
RECURSIVE ConnectionsFrom(_, _, _, _)
ConnectionsFrom(graph, item, pageUrls, j) ==
  IF j > Len(pageUrls) THEN <<>>
  ELSE LET targetUrl == pageUrls[j]
           skip == item.url = targetUrl \/ Len(item.path) >= MaxConnectedLength
           hasConnection == \E k \in DOMAIN graph[item.url].edges :
                               graph[item.url].edges[k].target = targetUrl
       IN (IF ~skip /\ hasConnection
           THEN << [type |-> "connected",
                    path |-> Append(item.path, targetUrl),
                    confidence |-> ConnectedConfidence] >>
           ELSE <<>>)
          \o ConnectionsFrom(graph, item, pageUrls, j + 1)

\* node.edges.forEach of the breadth-first search: <<queue, visited>> after it
RECURSIVE EnqueueEdges(_, _, _, _)
EnqueueEdges(queue, visited, edges, path) ==
  IF edges = <<>> THEN <<queue, visited>>
  ELSE LET target == Head(edges).target
       IN IF target \notin visited /\ Len(path) < MaxConnectedLength
          THEN EnqueueEdges(Append(queue, [url |-> target, path |-> Append(path, target)]),
                            visited \cup {target}, Tail(edges), path)
          ELSE EnqueueEdges(queue, visited, Tail(edges), path)

\* the while loop of findConnectedPaths for one start URL
RECURSIVE ConnectedSearch(_, _, _, _, _)
ConnectedSearch(graph, pageUrls, queue, visited, paths) ==
  IF queue = <<>> THEN paths
  ELSE LET item == Head(queue)
       IN IF item.url \notin DOMAIN graph
          THEN ConnectedSearch(graph, pageUrls, Tail(queue), visited, paths)
          ELSE LET next == EnqueueEdges(Tail(queue), visited, graph[item.url].edges, item.path)
               IN ConnectedSearch(graph, pageUrls, next[1], next[2],
                                  paths \o ConnectionsFrom(graph, item, pageUrls, 1))

RECURSIVE ConnectedFrom(_, _, _)
ConnectedFrom(graph, pageUrls, i) ==
  IF i > Len(pageUrls) THEN <<>>
  ELSE ConnectedSearch(graph, pageUrls,
                       << [url |-> pageUrls[i], path |-> <<pageUrls[i]>>] >>,
                       {pageUrls[i]}, <<>>)
       \o ConnectedFrom(graph, pageUrls, i + 1)

findConnectedPaths(graph, pageUrls) == ConnectedFrom(graph, pageUrls, 1)

\* the keys of groupPagesByType, in the order Object.entries lists them
RECURSIVE GroupTypes(_, _)
GroupTypes(flowCandidates, types) ==
  IF flowCandidates = <<>> THEN types
  ELSE GroupTypes(Tail(flowCandidates), AddUnique(types, Head(flowCandidates).pageType))

\* Object.entries(groupPagesByType(flowCandidates)): the URL lists of the
\* flow candidates of each page type, in the order the types first occur
PageGroups(graph, analyzedPages) ==
  LET isCandidate(page) ==
        /\ page.url \in DOMAIN graph
        /\ graph[page.url].inDegree > 0 \/ graph[page.url].outDegree > 1
      flowCandidates == SelectSeq(analyzedPages, isCandidate)
      types == GroupTypes(flowCandidates, <<>>)
      group(type) == LET ofType(page) == page.pageType = type
                     IN SelectSeq(flowCandidates, ofType)
  IN [k \in DOMAIN types |-> [i \in 1..Len(group(types[k])) |-> group(types[k])[i].url]]

extractCustomFlows(graph, analyzedPages, entryPoints) ==
  LET groups == PageGroups(graph, analyzedPages)
      RECURSIVE Groups(_)
      Groups(k) ==
        IF k > Len(groups) THEN <<>>
        ELSE (IF Len(groups[k]) > 1 THEN findConnectedPaths(graph, groups[k]) ELSE <<>>)
             \o Groups(k + 1)
  IN Groups(1)

-----------------------------------------------------------------------------
(* flowExtractor: aggregation *)

\* flow.confidence || 0
ConfidenceOf(flow) == IF "confidence" \in DOMAIN flow THEN flow.confidence ELSE 0

RECURSIVE deduplicateFrom(_, _, _)
deduplicateFrom(flows, seen, uniqueFlows) ==
  IF flows = <<>> THEN uniqueFlows
  ELSE LET key == JoinPath(Head(flows).path)
           isSubpath == \E existingKey \in seen : Includes(existingKey, key) /\ existingKey # key
       IN IF key \in seen \/ isSubpath
          THEN deduplicateFrom(Tail(flows), seen, uniqueFlows)
          ELSE deduplicateFrom(Tail(flows), seen \cup {key}, Append(uniqueFlows, Head(flows)))

\* uniqueFlows.sort((a, b) => (b.confidence || 0) - (a.confidence || 0)),
\* a stable sort
RECURSIVE InsertByConfidence(_, _)
InsertByConfidence(sorted, flow) ==
  IF sorted = <<>> THEN <<flow>>
  ELSE IF ConfidenceOf(Head(sorted)) - ConfidenceOf(flow) < 0 THEN <<flow>> \o sorted
  ELSE <<Head(sorted)>> \o InsertByConfidence(Tail(sorted), flow)

RECURSIVE SortByConfidence(_)
SortByConfidence(flows) ==
  IF flows = <<>> THEN <<>>
  ELSE InsertByConfidence(SortByConfidence(SubSeq(flows, 1, Len(flows) - 1)), flows[Len(flows)])

deduplicateFlows(flows) == SortByConfidence(deduplicateFrom(flows, {}, <<>>))

\* allFlows of extractFlows: the detector outputs, concatenated
AllFlows(analyzedPages, start) ==
  LET graph == buildCompleteGraph(analyzedPages)
      entryPoints == EntryPoints(analyzedPages, start)
  IN extractEcommerceFlows(graph, analyzedPages, entryPoints)
     \o extractAuthFlows(graph, analyzedPages, entryPoints)
     \o extractSupportFlows(graph, analyzedPages, entryPoints)
     \o extractContentFlows(graph, analyzedPages, entryPoints)
     \o extractHubAndSpokeFlows(graph, analyzedPages, entryPoints)
     \o extractLinearFlows(graph, analyzedPages, entryPoints, MinLinearLength)
     \o extractCustomFlows(graph, analyzedPages, entryPoints)

extractFlows(analyzedPages, start) ==
  IF analyzedPages = <<>> THEN <<>>
  ELSE deduplicateFlows(AllFlows(analyzedPages, start))

-----------------------------------------------------------------------------
(* Inputs handed directly to reduceNoise *)

FlowTypes == {"ecommerce", "authentication", "support", "content", "navigation",
              "linear", "connected"}

ListFlowTypes == {"navigation", "content"}

NoisePageTypes == {"home", "content", "login"}

Page(url, pageType, titleLen, depth, contextual, global) ==
  [url |-> url, pageType |-> pageType, title |-> titleLen, depth |-> depth,
   links |-> [contextual |-> contextual, global |-> global]]

\* the pages of URLs 1..k, of every typing
NoisePages(k) ==
  { [u \in 1..k |-> Page(u, types[u], 5, IF u = 1 THEN 0 ELSE 1, <<>>, <<>>)]
    : types \in [1..k -> NoisePageTypes] }

Candidate(type, path) == [type |-> type, name |-> "Flow", path |-> path]

\* one flow of any type on a path of distinct URLs 1, 2, .., k; the last URL
\* of the longest path may have no page
SingleFlowInit ==
  /\ pages \in NoisePages(MaxPathLen - 1) \cup NoisePages(MaxPathLen)
  /\ rawFlows \in { <<Candidate(t, [i \in 1..k |-> i])>> : t \in FlowTypes, k \in 2..MaxPathLen }

\* lists of flows of two types on the paths from one entry point
FlowListInit ==
  /\ pages \in NoisePages(NumNoiseUrls)
  /\ rawFlows \in SeqsUpTo({ Candidate(t, <<1>> \o p) :
                               t \in ListFlowTypes,
                               p \in SeqsUpTo(1..NumNoiseUrls, 1, MaxListPathLen - 1) },
                            0, MaxFlows)

NoiseInit ==
  /\ SingleFlowInit \/ FlowListInit
  /\ startUrl = 1
  /\ cleanedFlows = <<>>
  /\ recleanedFlows = <<>>
  /\ abortSignal = Null
  /\ error = "none"
  /\ search = Null
  /\ CrawlerIdle
  /\ ServerIdle
  /\ pc = "reducing"

\* mutant: the score is written on the flow objects of the argument
\* (flow.score = score) instead of on copies
rawFlowsAfterReduceNoiseScoredInPlace(flows, analyzedPages) ==
  LET filtered == FilteredFlows(flows, analyzedPages)
      scored(i) == /\ \E k \in DOMAIN filtered : filtered[k].path = flows[i].path
                   /\ \A j \in 1..(i - 1) : flows[j].path # flows[i].path
  IN [i \in DOMAIN flows |->
        IF scored(i) THEN WithScore(flows[i], FlowScore(flows[i], analyzedPages))
        ELSE flows[i]]

\* the rawFlows array of the caller after reduceNoise returned: reduceNoise
\* works on the copy [...rawFlows], every filter builds a new array, and
\* scoreAndRankFlows maps each flow to the new object { ...flow, score }
rawFlowsAfterReduceNoise(flows, analyzedPages) == flows

\* the analyzedPages array after extractFlows or reduceNoise returned: both
\* only read it (find, filter, forEach)
analyzedPagesAfter(analyzedPages) == analyzedPages

\* flowMapper step 4: cleanedFlows = reduceNoise(rawFlows, analyzedPages)
ReduceNoise ==
  /\ pc = "reducing"
  /\ cleanedFlows' = reduceNoise(rawFlows, pages)
  /\ rawFlows' = rawFlowsAfterReduceNoise(rawFlows, pages)
  /\ pages' = analyzedPagesAfter(pages)
  /\ pc' = "cleaned"
  /\ UNCHANGED <<crawlerVars, serverVars,
                 startUrl, recleanedFlows, abortSignal, error, search>>

\* reduceNoise applied to its own output
ReduceNoiseAgain ==
  /\ pc = "cleaned"
  /\ recleanedFlows' = reduceNoise(cleanedFlows, pages)
  /\ pc' = "recleaned"
  /\ UNCHANGED <<crawlerVars, serverVars,
                 pages, startUrl, rawFlows, cleanedFlows, abortSignal, error, search>>

NoiseNext == ReduceNoise \/ ReduceNoiseAgain

SpecNoise == NoiseInit /\ [][NoiseNext]_vars

-----------------------------------------------------------------------------
(* The extraction run: flowMapper steps 3 and 4 on the pages of a site *)

Urls == 1..NumUrls

PageKind(pageType, titleLen) == [pageType |-> pageType, title |-> titleLen]

\* the page types and title lengths of the pages of a site, in crawl order
SiteProfiles ==
  { << PageKind("home", 5), PageKind("content", 5), PageKind("content", 5),
       PageKind("content", 11), PageKind("content", 5) >>,
    << PageKind("home", 5), PageKind("login", 5), PageKind("signup", 5),
       PageKind("content", 5), PageKind("login", 5) >>,
    << PageKind("home", 5), PageKind("support", 5), PageKind("contact", 5),
       PageKind("content", 5), PageKind("about", 5) >>,
    << PageKind("product-list", 5), PageKind("product-detail", 5), PageKind("checkout", 5),
       PageKind("home", 5), PageKind("content", 5) >>,
    << PageKind("content", 5), PageKind("home", 5), PageKind("about", 11),
       PageKind("about", 5), PageKind("content", 5) >> }

Link(href, textLen, linkType) == [href |-> href, text |-> textLen, linkType |-> linkType]

\* the links a page can carry: contextual with a short anchor text, to
\* another page or to a URL that was not crawled; contextual with a long
\* anchor text, to another page; global, to another page
ContextualLinks(u) ==
  { Link(t, 5, "contextual") : t \in (Urls \ {u}) \cup {Uncrawled} }
  \cup { Link(t, 6, "contextual") : t \in Urls \ {u} }

GlobalLinks(u) == { Link(t, 5, "global") : t \in Urls \ {u} }

\* <<contextual, global>> link lists of page u with at most b links
PageLinkChoices(u, b) ==
  UNION { { <<c, g>> : g \in SeqsUpTo(GlobalLinks(u), 0, b - Len(c)) }
          : c \in SeqsUpTo(ContextualLinks(u), 0, b) }

\* the link lists of pages 1..u with at most b links in total
RECURSIVE SiteLinks(_, _)
SiteLinks(u, b) ==
  IF u = 0 THEN { <<>> }
  ELSE UNION { { Append(t, cg) : t \in SiteLinks(u - 1, b - Len(cg[1]) - Len(cg[2])) }
               : cg \in PageLinkChoices(u, b) }

SitePagesOf(profiles) ==
  { [u \in Urls |-> Page(u, profile[u].pageType, profile[u].title,
                         IF u = 1 THEN 0 ELSE 1, links[u][1], links[u][2])]
    : profile \in profiles, links \in SiteLinks(NumUrls, MaxLinks) }

\* the profile of the runs whose start URL is not among the pages
SupportProfiles == { profile \in SiteProfiles : profile[2].pageType = "support" }

\* the start URL is the first page crawled; or no page was crawled; or the
\* start URL is not among the pages
Init ==
  /\ \/ pages \in SitePagesOf(SiteProfiles) /\ startUrl = 1
     \/ pages = <<>> /\ startUrl = Uncrawled
     \/ pages \in SitePagesOf(SupportProfiles) /\ startUrl = Uncrawled
  /\ rawFlows = <<>>
  /\ cleanedFlows = <<>>
  /\ recleanedFlows = <<>>
  /\ abortSignal = Null
  /\ error = "none"
  /\ search = Null
  /\ CrawlerIdle
  /\ ServerIdle
  /\ pc = "analyzed"

\* mutant: the check is a no-op
throwIfAbortedNever(signal) == "none"

\* the name of the error throwIfAborted(abortSignal) throws, "none" when it
\* returns: if (abortSignal?.aborted) throw an Error named AbortError
throwIfAborted(signal) ==
  IF signal # Null /\ signal.aborted THEN "AbortError" ELSE "none"

\* flowMapper: the throwIfAborted(abortSignal) before step 3 and before
\* step 4
ThrowIfAborted ==
  /\ pc \in {"analyzed", "extracted"}
  /\ error' = throwIfAborted(abortSignal)
  /\ pc' = IF error' # "none" THEN "failed"
           ELSE IF pc = "analyzed" THEN "extracting"
           ELSE "reducing"
  /\ UNCHANGED <<crawlerVars, serverVars,
                 pages, startUrl, rawFlows, cleanedFlows, recleanedFlows, abortSignal,
                 search>>

\* flowMapper step 3: rawFlows = extractFlows(analyzedPages, startUrl)
ExtractFlows ==
  /\ pc = "extracting"
  /\ rawFlows' = extractFlows(pages, startUrl)
  /\ pages' = analyzedPagesAfter(pages)
  /\ pc' = "extracted"
  /\ UNCHANGED <<crawlerVars, serverVars,
                 startUrl, cleanedFlows, recleanedFlows, abortSignal, error, search>>

Next == ThrowIfAborted \/ ExtractFlows \/ ReduceNoise

Spec == Init /\ [][Next]_vars

-----------------------------------------------------------------------------
(* The extraction run on chains of pages: a home page followed by the pages
   of one journey, each page linking to the next by one contextual link *)

MaxChainContent == 4     \* content pages behind the home page of a content chain

\* the sequences over S without repetition, of length n
InjectiveSeqs(S, n) == { s \in SeqsOfLen(S, n) : Cardinality(Range(s)) = n }

\* the pages of the chain urls[1] -> urls[2] -> .. in crawl order: page i
\* has the type and title of kinds[i], depth i - 1 and one contextual link
\* with an anchor text of textLen characters to page i + 1
ChainPages(urls, kinds, textLen) ==
  [i \in DOMAIN urls |->
     Page(urls[i], kinds[i].pageType, kinds[i].title, i - 1,
          IF i < Len(urls) THEN <<Link(urls[i + 1], textLen, "contextual")>> ELSE <<>>,
          <<>>)]

ChainTextLens == {0, 5, 6}
ChainTitleLens == {5, 11}

\* home -> login
LoginChains ==
  { ChainPages(urls, <<PageKind("home", t1), PageKind("login", t2)>>, textLen)
    : urls \in InjectiveSeqs(1..3, 2), t1 \in ChainTitleLens, t2 \in ChainTitleLens,
      textLen \in ChainTextLens }

\* home -> product-list -> product-detail -> checkout
PurchaseChains ==
  { ChainPages(urls, <<PageKind("home", 5), PageKind("product-list", t),
                       PageKind("product-detail", 5), PageKind("checkout", 5)>>, textLen)
    : urls \in InjectiveSeqs(1..4, 4), t \in ChainTitleLens, textLen \in {5, 6} }

\* home -> content -> content -> content ( -> content .. )
ContentChains ==
  { ChainPages(IF up THEN [i \in 1..(n + 1) |-> i] ELSE [i \in 1..(n + 1) |-> n + 2 - i],
               [i \in 1..(n + 1) |-> IF i = 1 THEN PageKind("home", 5) ELSE PageKind("content", t)],
               textLen)
    : up \in BOOLEAN, n \in 3..MaxChainContent, t \in ChainTitleLens, textLen \in ChainTextLens }

\* the pages in crawl order or in the opposite order; the start URL is the
\* home page, or a URL that redirected to it and is not among the pages
ChainInit ==
  /\ \E chain \in LoginChains \cup PurchaseChains \cup ContentChains :
        pages \in {chain, Reverse(chain)}
  /\ startUrl \in {Uncrawled} \cup { pages[i].url : i \in { k \in DOMAIN pages : pages[k].pageType = "home" } }
  /\ rawFlows = <<>>
  /\ cleanedFlows = <<>>
  /\ recleanedFlows = <<>>
  /\ abortSignal = Null
  /\ error = "none"
  /\ search = Null
  /\ CrawlerIdle
  /\ ServerIdle
  /\ pc = "analyzed"

SpecChain == ChainInit /\ [][Next]_vars

-----------------------------------------------------------------------------
(* The extraction run under a caller's abort signal *)

AbortSignals == {Null, [aborted |-> FALSE], [aborted |-> TRUE]}

IsAborted(signal) == signal # Null /\ signal.aborted

\* the caller aborts: AbortController.abort() of the job's controller, at any
\* time the caller runs
Abort ==
  /\ abortSignal # Null
  /\ ~abortSignal.aborted
  /\ abortSignal' = [aborted |-> TRUE]
  /\ UNCHANGED <<crawlerVars, serverVars,
                 pages, startUrl, rawFlows, cleanedFlows, recleanedFlows, error, search, pc>>

AbortInit ==
  /\ \E chain \in LoginChains \cup ContentChains : pages = chain
  /\ startUrl = pages[1].url
  /\ rawFlows = <<>>
  /\ cleanedFlows = <<>>
  /\ recleanedFlows = <<>>
  /\ abortSignal \in AbortSignals
  /\ error = "none"
  /\ search = Null
  /\ CrawlerIdle
  /\ ServerIdle
  /\ pc = "analyzed"

AbortNext == Abort \/ ThrowIfAborted \/ ExtractFlows \/ ReduceNoise

SpecAbort == AbortInit /\ [][AbortNext]_vars

-----------------------------------------------------------------------------
(* The extraction run on pages of any depth: the pages listed in any order,
   each linking to the next of the list, with or without a start URL *)

MaxEntryDepth == 2      \* deepest page of these runs

EntryPageTypes == {"home", "content"}

EntrySites ==
  { [i \in 1..3 |->
       Page(urls[i], types[i], 5, depths[i],
            IF i < 3 THEN <<Link(urls[i + 1], 6, "contextual")>> ELSE <<>>, <<>>)]
    : urls \in InjectiveSeqs(1..3, 3),
      types \in [1..3 -> EntryPageTypes],
      depths \in [1..3 -> 0..MaxEntryDepth] }

\* extractFlows is called with a start URL that is a page, with one that is
\* not, or without one
EntryInit ==
  /\ pages \in EntrySites
  /\ startUrl \in {NoStartUrl, Uncrawled} \cup 1..3
  /\ rawFlows = <<>>
  /\ cleanedFlows = <<>>
  /\ recleanedFlows = <<>>
  /\ abortSignal = Null
  /\ error = "none"
  /\ search = Null
  /\ CrawlerIdle
  /\ ServerIdle
  /\ pc = "analyzed"

SpecEntry == EntryInit /\ [][Next]_vars

-----------------------------------------------------------------------------
(* The loops and recursions of the detectors, one iteration or call at a
   time.  search holds the local state of the running detector: the call
   stack of findFlowByPageTypes, the current call of findLinearPaths, the
   stack of extractLinearFlows, the queue of findConnectedPaths. *)

NumSearchUrls == 3      \* pages of a searched site
MaxSearchLinks == 3     \* links on all pages of a searched site, in total
MaxCallDepth == 6       \* nested calls the engine's call stack holds

SearchUrls == 1..NumSearchUrls

\* contextual links to any page, the page itself included; a global link
\* back to the first page
SearchLinks == { Link(t, 5, "contextual") : t \in SearchUrls } \cup { Link(1, 5, "global") }

\* the <<contextual, global>> link lists of pages 1..u, at most b links in all
RECURSIVE SearchSiteLinks(_, _)
SearchSiteLinks(u, b) ==
  IF u = 0 THEN { <<>> }
  ELSE UNION { { Append(t, ls) : t \in SearchSiteLinks(u - 1, b - Len(ls)) }
               : ls \in SeqsUpTo(SearchLinks, 0, b) }

\* a site with a support chain, for the type-chain searches to match, and a
\* site with pages of one type, for findConnectedPaths to connect
SearchProfiles ==
  { profile \in SiteProfiles : profile[2].pageType \in {"support", "content"} }

SearchSites ==
  { [u \in SearchUrls |->
       Page(u, profile[u].pageType, profile[u].title, IF u = 1 THEN 0 ELSE 1,
            SelectSeq(links[u], LAMBDA l : l.linkType = "contextual"),
            SelectSeq(links[u], LAMBDA l : l.linkType = "global"))]
    : profile \in SearchProfiles, links \in SearchSiteLinks(NumSearchUrls, MaxSearchLinks) }

\* mutant: a call of the recursive searches does not test visited
EntersNodeUnvisitedUnchecked(graph, url, visited) == url \in DOMAIN graph

\* the test the recursive searches open with, negated: graph.has(startUrl)
\* and not visited.has(startUrl)
EntersNode(graph, url, visited) == url \in DOMAIN graph /\ url \notin visited

\* a call of findFlowByPageTypes that has not run yet
TypeChainCall(url, targetTypes, visited, currentPath) ==
  [url |-> url, targetTypes |-> targetTypes, visited |-> visited,
   currentPath |-> currentPath, k |-> 0]

\* the state of a detector about to run from entry point entryUrl
SearchStart(kind, entryUrl, graph, analyzedPages) ==
  CASE kind = "ecommerce" ->
         [kind |-> kind,
          frames |-> <<TypeChainCall(entryUrl, <<"product-list", "product-detail", "checkout">>,
                                     {}, <<>>)>>]
    [] kind = "support" ->
         [kind |-> kind,
          frames |-> <<TypeChainCall(entryUrl, <<"support", "contact">>, {}, <<>>)>>]
    [] kind = "content" ->
         [kind |-> kind, url |-> entryUrl, visited |-> {}, currentPath |-> <<>>, depth |-> 1]
    [] kind = "navigation" ->
         [kind |-> kind, entryUrl |-> entryUrl]
    [] kind = "linear" ->
         [kind |-> kind, stack |-> << [url |-> entryUrl, path |-> <<entryUrl>>] >>,
          visited |-> {}, flows |-> <<>>]

\* the state of findConnectedPaths about to start the search from pageUrls[i]
ConnectedStart(pageUrls, i, paths) ==
  [kind |-> "connected", pageUrls |-> pageUrls, i |-> i,
   queue |-> IF i <= Len(pageUrls) THEN << [url |-> pageUrls[i], path |-> <<pageUrls[i]>>] >>
             ELSE <<>>,
   visited |-> IF i <= Len(pageUrls) THEN {pageUrls[i]} ELSE {},
   paths |-> paths]

SearchKinds == {"ecommerce", "support", "content", "navigation", "linear"}

SearchInit ==
  /\ pages \in SearchSites
  /\ startUrl \in {1, Uncrawled}
  /\ LET graph == buildCompleteGraph(pages)
         groups == PageGroups(graph, pages)
     IN search \in { SearchStart(kind, startUrl, graph, pages) : kind \in SearchKinds }
                   \cup { ConnectedStart(groups[g], 1, <<>>) :
                            g \in { k \in DOMAIN groups : Len(groups[k]) > 1 /\ startUrl = 1 } }
  /\ rawFlows = <<>>
  /\ cleanedFlows = <<>>
  /\ recleanedFlows = <<>>
  /\ abortSignal = Null
  /\ error = "none"
  /\ pc = "searching"
  /\ CrawlerIdle
  /\ ServerIdle

\* the search returned result
Returned(result) ==
  /\ search' = [kind |-> search.kind, result |-> result]
  /\ pc' = "searched"
  /\ error' = error

\* the recursion went deeper than the call stack holds
StackOverflow ==
  /\ search' = [kind |-> search.kind, result |-> Null]
  /\ pc' = "failed"
  /\ error' = "RangeError"

\* one call, or one iteration of the loop over node.edges, of
\* findFlowByPageTypes
TypeChainStep ==
  /\ pc = "searching"
  /\ search.kind \in {"ecommerce", "support"}
  /\ LET graph == buildCompleteGraph(pages)
         frames == search.frames
         top == frames[Len(frames)]
         callers == SubSeq(frames, 1, Len(frames) - 1)
         \* the call returns null: the caller goes on with its next edge
         ReturnNull == IF callers = <<>> THEN Returned(Null)
                       ELSE /\ search' = [search EXCEPT !.frames = callers]
                            /\ UNCHANGED <<pc, error>>
     IN IF top.k = 0
        THEN IF ~EntersNode(graph, top.url, top.visited) THEN ReturnNull
             ELSE LET path == Append(top.currentPath, top.url)
                      types == top.targetTypes
                      hit == types # <<>> /\ graph[top.url].page.pageType = types[1]
                      remainingTypes == IF hit THEN Tail(types) ELSE types
                  IN IF hit /\ remainingTypes = <<>> THEN Returned(path)
                     ELSE /\ search' = [search EXCEPT !.frames[Len(frames)] =
                                           [url |-> top.url, targetTypes |-> remainingTypes,
                                            visited |-> top.visited \cup {top.url},
                                            currentPath |-> path, k |-> 1]]
                          /\ UNCHANGED <<pc, error>>
        ELSE IF top.k > Len(graph[top.url].edges) THEN ReturnNull
        ELSE IF Len(frames) >= MaxCallDepth THEN StackOverflow
        ELSE /\ search' = [search EXCEPT !.frames =
                              Append([frames EXCEPT ![Len(frames)].k = top.k + 1],
                                     TypeChainCall(graph[top.url].edges[top.k].target,
                                                   top.targetTypes, top.visited,
                                                   top.currentPath))]
             /\ UNCHANGED <<pc, error>>
  /\ UNCHANGED <<crawlerVars, serverVars,
                 pages, startUrl, rawFlows, cleanedFlows, recleanedFlows, abortSignal>>

\* one call of findLinearPaths; every call returns what its one recursive
\* call returns
LinearChainStep ==
  /\ pc = "searching"
  /\ search.kind = "content"
  /\ LET graph == buildCompleteGraph(pages)
     IN IF ~EntersNode(graph, search.url, search.visited) THEN Returned(<<>>)
        ELSE LET path == Append(search.currentPath, search.url)
                 edges == graph[search.url].edges
             IN IF Len(edges) = 1
                THEN IF search.depth >= MaxCallDepth THEN StackOverflow
                     ELSE /\ search' = [search EXCEPT !.url = edges[1].target,
                                                       !.visited = @ \cup {search.url},
                                                       !.currentPath = path,
                                                       !.depth = @ + 1]
                          /\ UNCHANGED <<pc, error>>
                ELSE IF Len(path) >= MinLinearLength THEN Returned(<<path>>)
                ELSE Returned(<<>>)
  /\ UNCHANGED <<crawlerVars, serverVars,
                 pages, startUrl, rawFlows, cleanedFlows, recleanedFlows, abortSignal>>

\* the body of extractHubAndSpokeFlows for one entry point: a filter and a
\* forEach over the edges of the entry point
HubAndSpokeStep ==
  /\ pc = "searching"
  /\ search.kind = "navigation"
  /\ Returned(extractHubAndSpokeFlows(buildCompleteGraph(pages), pages, <<search.entryUrl>>))
  /\ UNCHANGED <<crawlerVars, serverVars,
                 pages, startUrl, rawFlows, cleanedFlows, recleanedFlows, abortSignal>>

\* one iteration of the while loop of extractLinearFlows
LinearFlowsStep ==
  /\ pc = "searching"
  /\ search.kind = "linear"
  /\ LET graph == buildCompleteGraph(pages)
         stack == search.stack
     IN IF stack = <<>> THEN Returned(search.flows)
        ELSE LET top == stack[Len(stack)]
                 rest == SubSeq(stack, 1, Len(stack) - 1)
                 contextualEdges == SelectSeq(graph[top.url].edges,
                                              LAMBDA e : e.linkType = "contextual")
             IN /\ search' =
                     IF top.url \in search.visited \/ Len(top.path) > MaxLinearLength
                     THEN [search EXCEPT !.stack = rest]
                     ELSE IF top.url \notin DOMAIN graph
                     THEN [search EXCEPT !.stack = rest, !.visited = @ \cup {top.url}]
                     ELSE IF contextualEdges = <<>> /\ Len(top.path) >= MinLinearLength
                     THEN [search EXCEPT
                             !.stack = rest,
                             !.visited = @ \cup {top.url},
                             !.flows = Append(@, [type |-> "linear",
                                                  path |-> top.path,
                                                  confidence |-> calculateFlowConfidence(graph, top.path)])]
                     ELSE [search EXCEPT
                             !.stack = PushContextual(rest, contextualEdges, top.path),
                             !.visited = @ \cup {top.url}]
                /\ UNCHANGED <<pc, error>>
  /\ UNCHANGED <<crawlerVars, serverVars,
                 pages, startUrl, rawFlows, cleanedFlows, recleanedFlows, abortSignal>>

\* one iteration of the while loop of findConnectedPaths, or the step of
\* its for loop to the next start URL
ConnectedStep ==
  /\ pc = "searching"
  /\ search.kind = "connected"
  /\ LET graph == buildCompleteGraph(pages)
         queue == search.queue
     IN IF queue = <<>>
        THEN IF search.i >= Len(search.pageUrls) THEN Returned(search.paths)
             ELSE /\ search' = ConnectedStart(search.pageUrls, search.i + 1, search.paths)
                  /\ UNCHANGED <<pc, error>>
        ELSE LET item == Head(queue)
                 next == EnqueueEdges(Tail(queue), search.visited, graph[item.url].edges,
                                      item.path)
             IN /\ search' =
                     IF item.url \notin DOMAIN graph THEN [search EXCEPT !.queue = Tail(queue)]
                     ELSE [search EXCEPT
                             !.queue = next[1],
                             !.visited = next[2],
                             !.paths = @ \o ConnectionsFrom(graph, item, search.pageUrls, 1)]
                /\ UNCHANGED <<pc, error>>
  /\ UNCHANGED <<crawlerVars, serverVars,
                 pages, startUrl, rawFlows, cleanedFlows, recleanedFlows, abortSignal>>

SearchNext ==
  \/ TypeChainStep
  \/ LinearChainStep
  \/ HubAndSpokeStep
  \/ LinearFlowsStep
  \/ ConnectedStep

\* the code is synchronous: a detector that can take a step takes it
SpecSearch == SearchInit /\ [][SearchNext]_vars /\ WF_vars(SearchNext)

-----------------------------------------------------------------------------
(* crawler.crawlWebsite: the breadth-first crawl, one loop iteration, one
   axios request and one backoff sleep at a time.  A URL of the site is a
   page number and a fragment; pages holds the crawled pages { url, links,
   depth, referrer }. *)

NumCrawlUrls == 3       \* pages of the crawled site
MaxPageLinks == 2       \* internal links on a fetched page
MaxCrawlDepth == 2      \* largest maxDepth of a crawl
MaxCrawlPages == 3      \* largest maxPages of a crawl
MaxCrawlRetries == 2    \* largest maxRetries of a crawl

Href(page, hash) == [page |-> page, hash |-> hash]

\* the internal URLs pages link to: the pages of the site, and the start
\* page with a fragment
CrawlHrefs == { Href(u, "") : u \in 1..NumCrawlUrls } \cup { Href(1, "#top") }

CrawlStartUrl == Href(1, "")

\* urlObj.hash = ''
stripHash(url) == [url EXCEPT !.hash = ""]

\* urlObj.hash = ''; the paths of the model have no trailing slash to strip
normalizeForVisit(url) == [url EXCEPT !.hash = ""]

\* the links pushed for a page fetched at url: any internal hrefs, in any
\* order, but those that differ from url in the fragment only
PageLinkLists(url) ==
  SeqsUpTo({ h \in CrawlHrefs : stripHash(h) # stripHash(url) }, 0, MaxPageLinks)

NoStatus == 0           \* error.response is undefined: no HTTP response came

\* the ways an axios request fails: error.response?.status
FailureStatuses == {NoStatus, 404, 429, 500, 503}

shouldRetry(status) == status \in {429, 502, 503, 504}

CrawlConfigs ==
  [maxDepth : 0..MaxCrawlDepth, maxPages : 1..MaxCrawlPages, maxRetries : 0..MaxCrawlRetries]

\* the state of crawlWebsite at its first loop test
CrawlStarts ==
  /\ crawlQueue = << [url |-> CrawlStartUrl, depth |-> 0, referrer |-> Null] >>
  /\ crawlVisited = {}
  /\ fetch = Null
  /\ pages = <<>>

CrawlInit ==
  /\ config \in CrawlConfigs
  /\ CrawlStarts
  /\ startUrl = CrawlStartUrl
  /\ abortSignal \in {Null, [aborted |-> FALSE]}
  /\ rawFlows = <<>>
  /\ cleanedFlows = <<>>
  /\ recleanedFlows = <<>>
  /\ error = "none"
  /\ search = Null
  /\ pc = "crawling"
  /\ ServerIdle

\* mutant: the loop goes on while pages.length <= maxPages
CrawlGoesOnUpToMaxPages(q, crawled, maxPages) == q # <<>> /\ Len(crawled) <= maxPages

\* while (queue.length > 0 && pages.length < maxPages)
CrawlGoesOn(q, crawled, maxPages) == q # <<>> /\ Len(crawled) < maxPages

\* what the loop pushes on the queue for the links of a page crawled at
\* depth from url
RECURSIVE QueueLinks(_, _, _, _, _)
QueueLinks(q, links, seen, depth, url) ==
  IF links = <<>> THEN q
  ELSE QueueLinks(IF normalizeForVisit(Head(links)) \notin seen
                  THEN Append(q, [url |-> Head(links), depth |-> depth + 1, referrer |-> url])
                  ELSE q,
                  Tail(links), seen, depth, url)

\* the loop test and, up to the first request, one iteration: the item
\* taken off the queue is skipped when its URL was visited or lies too
\* deep; an abort seen by throwIfAborted or by the delay ends the crawl
CrawlLoop ==
  /\ pc = "crawling"
  /\ IF ~CrawlGoesOn(crawlQueue, pages, config.maxPages)
     THEN /\ pc' = "crawled"
          /\ fetch' = Null
          /\ UNCHANGED <<crawlQueue, crawlVisited, error>>
     ELSE LET item == Head(crawlQueue)
              visitKey == normalizeForVisit(item.url)
          IN /\ crawlQueue' = Tail(crawlQueue)
             /\ IF visitKey \in crawlVisited \/ item.depth > config.maxDepth
                THEN /\ fetch' = Null
                     /\ UNCHANGED <<crawlVisited, pc, error>>
                ELSE /\ crawlVisited' = crawlVisited \cup {visitKey}
                     /\ error' = throwIfAborted(abortSignal)
                     /\ IF error' # "none"
                        THEN pc' = "failed" /\ fetch' = Null
                        ELSE /\ pc' = "fetching"
                             /\ fetch' = [url |-> item.url, depth |-> item.depth,
                                          referrer |-> item.referrer, attempt |-> 0,
                                          status |-> NoStatus]
  /\ UNCHANGED <<pages, startUrl, rawFlows, cleanedFlows, recleanedFlows, abortSignal, search,
                 config, serverVars>>

\* one attempt of fetchHtmlWithAxios: the response is a page with links, or
\* the request fails; a failure that is not retried is thrown to the loop of
\* crawlWebsite, which logs it and goes on with the queue.  An abort is
\* thrown by throwIfAborted as an AbortError, or by axios, whose request
\* carries the signal, as a CanceledError with code ERR_CANCELED; both pass
\* isAbortError and leave crawlWebsite
AxiosGet ==
  /\ pc = "fetching"
  /\ IF throwIfAborted(abortSignal) # "none"
     THEN /\ error' \in {throwIfAborted(abortSignal), "CanceledError"}
          /\ pc' = "failed"
          /\ UNCHANGED <<pages, crawlQueue, fetch>>
     ELSE \/ \E links \in PageLinkLists(fetch.url) :
               /\ pages' = Append(pages, [url |-> fetch.url, links |-> links,
                                          depth |-> fetch.depth, referrer |-> fetch.referrer])
               /\ crawlQueue' = IF fetch.depth < config.maxDepth
                                THEN QueueLinks(crawlQueue, links, crawlVisited, fetch.depth,
                                                fetch.url)
                                ELSE crawlQueue
               /\ pc' = "crawling"
               /\ UNCHANGED <<fetch, error>>
          \/ \E status \in FailureStatuses :
               /\ fetch' = [fetch EXCEPT !.status = status]
               /\ pc' = IF ~shouldRetry(status) \/ fetch.attempt = config.maxRetries
                        THEN "crawling"
                        ELSE "sleeping"
               /\ UNCHANGED <<pages, crawlQueue, error>>
  /\ UNCHANGED <<startUrl, rawFlows, cleanedFlows, recleanedFlows, abortSignal, search,
                 config, crawlVisited, serverVars>>

\* the backoff sleep before the next attempt; an abort rejects it
Sleep ==
  /\ pc = "sleeping"
  /\ error' = throwIfAborted(abortSignal)
  /\ IF error' # "none"
     THEN pc' = "failed" /\ fetch' = fetch
     ELSE pc' = "fetching" /\ fetch' = [fetch EXCEPT !.attempt = @ + 1]
  /\ UNCHANGED <<pages, startUrl, rawFlows, cleanedFlows, recleanedFlows, abortSignal, search,
                 config, crawlQueue, crawlVisited, serverVars>>

CrawlNext == Abort \/ CrawlLoop \/ AxiosGet \/ Sleep

SpecCrawl == CrawlInit /\ [][CrawlNext]_vars

-----------------------------------------------------------------------------
(* The server: POST /api/extract-flows starts a job and runs the crawl and
   the extraction under the job's AbortController; POST /api/cancel-crawl
   aborts a running job.  One extract-flows request is followed from its
   arrival to the end of its handler; res is the status it was answered
   with. *)

GeneratedJobId == "job-now"     \* `job-${Date.now()}`

\* the jobId of the body of an extract-flows request
BodyJobIds == {NoJobId, "job-1"}

\* the jobId of the body of a cancel-crawl request
CancelJobIds == {"job-1", "job-2", GeneratedJobId}

\* a startUrl that new URL(startUrl) rejects
InvalidUrl == Href(0, "")

\* the startUrl of the body: missing, not a URL, or the start page
BodyStartUrls == {Null, InvalidUrl, CrawlStartUrl}

\* the limits a crawlConfig sets; crawlAndExtractFlows replaces a limit of 0
\* by its default
BodyCrawlConfigs ==
  [maxDepth : 1..MaxCrawlDepth, maxPages : 1..MaxCrawlPages, maxRetries : 1..MaxCrawlRetries]

\* const requestJobId = jobId || `job-${Date.now()}`
requestJobId(id) == IF id # NoJobId THEN id ELSE GeneratedJobId

\* activeLogs.get(id).done = true, if the log exists
SetDone(logs, id) ==
  IF id \in DOMAIN logs THEN [logs EXCEPT ![id] = [done |-> TRUE]] ELSE logs

ServerInit ==
  /\ pages = <<>>
  /\ startUrl = Null
  /\ rawFlows = <<>>
  /\ cleanedFlows = <<>>
  /\ recleanedFlows = <<>>
  /\ abortSignal = Null
  /\ error = "none"
  /\ search = Null
  /\ CrawlerIdle
  /\ ServerIdle
  /\ pc = "idle"

\* the handler of POST /api/extract-flows up to its first await that waits:
\* 400 without startUrl; else the job is registered and crawlAndExtractFlows
\* calls crawlWebsite, where new URL(startUrl) throws a TypeError for a
\* startUrl that is not a URL, which the handler answers with 500
PostExtractFlows ==
  /\ pc = "idle"
  /\ \E url \in BodyStartUrls, id \in BodyJobIds, crawlConfig \in BodyCrawlConfigs :
       /\ startUrl' = url
       /\ jobId' = id
       /\ IF url = Null
          THEN /\ res' = 400
               /\ pc' = "answered"
               /\ UNCHANGED <<activeJobs, activeLogs, abortSignal, error, crawlerVars>>
          ELSE /\ abortSignal' = [aborted |-> FALSE]
               /\ activeJobs' = activeJobs \cup {requestJobId(id)}
               /\ activeLogs' = (requestJobId(id) :> [done |-> FALSE]) @@ activeLogs
               /\ config' = crawlConfig
               /\ IF url = InvalidUrl
                  THEN /\ error' = "TypeError"
                       /\ res' = 500
                       /\ pc' = "answered"
                       /\ UNCHANGED <<crawlQueue, crawlVisited, fetch>>
                  ELSE /\ crawlQueue' = << [url |-> url, depth |-> 0, referrer |-> Null] >>
                       /\ crawlVisited' = {}
                       /\ fetch' = Null
                       /\ error' = "none"
                       /\ res' = NotAnswered
                       /\ pc' = "crawling"
  /\ UNCHANGED <<pages, rawFlows, cleanedFlows, recleanedFlows, search>>

\* the handler of POST /api/cancel-crawl for a job that is active; for any
\* other jobId it answers 404 and changes nothing
PostCancelCrawl ==
  /\ \E id \in CancelJobIds :
       /\ id \in activeJobs
       /\ abortSignal' = [aborted |-> TRUE]
       /\ activeJobs' = activeJobs \ {id}
       /\ activeLogs' = SetDone(activeLogs, id)
  /\ UNCHANGED <<pages, startUrl, rawFlows, cleanedFlows, recleanedFlows, error, search, pc,
                 crawlerVars, jobId, res>>

\* crawlWebsite has returned: crawlAndExtractFlows checks the signal and
\* runs steps 2 to 5 without a further await; the handler then removes the
\* job, marks its log done and answers with the output
JobReturns ==
  /\ pc = "crawled"
  /\ error' = throwIfAborted(abortSignal)
  /\ IF error' # "none"
     THEN /\ pc' = "failed"
          /\ UNCHANGED <<activeJobs, activeLogs, res>>
     ELSE /\ activeJobs' = activeJobs \ {requestJobId(jobId)}
          /\ activeLogs' = SetDone(activeLogs, requestJobId(jobId))
          /\ res' = 200
          /\ pc' = "answered"
  /\ UNCHANGED <<pages, startUrl, rawFlows, cleanedFlows, recleanedFlows, abortSignal, search,
                 crawlerVars, jobId>>

\* the catch of the handler.  For an error named AbortError it reads jobId,
\* a const of the try block that is not in scope in the catch block: the
\* ReferenceError leaves the handler before res.status(409), and the request
\* stays unanswered or is answered 500 by the framework's error handling.
\* Any other error, the CanceledError of axios included, is answered 500
JobThrows ==
  /\ pc = "failed"
  /\ IF error = "AbortError"
     THEN /\ pc' = "rejected"
          /\ res' \in {NotAnswered, 500}
     ELSE /\ pc' = "answered"
          /\ res' = 500
  /\ UNCHANGED <<pages, startUrl, rawFlows, cleanedFlows, recleanedFlows, abortSignal, error,
                 search, crawlerVars, activeJobs, activeLogs, jobId>>

ServerNext ==
  \/ PostExtractFlows
  \/ PostCancelCrawl
  \/ CrawlLoop
  \/ AxiosGet
  \/ Sleep
  \/ JobReturns
  \/ JobThrows

SpecServer == ServerInit /\ [][ServerNext]_vars

-----------------------------------------------------------------------------
(* Properties of the noise reducer *)

Reduced == pc \in {"cleaned", "recleaned"}

Paths(flows) == { flows[i].path : i \in DOMAIN flows }

\* the elements of s at the indices in idx, in the order of s
SubseqAt(s, idx) ==
  LET RECURSIVE At(_)
      At(i) == IF i > Len(s) THEN <<>>
               ELSE (IF i \in idx THEN <<s[i]>> ELSE <<>>) \o At(i + 1)
  IN At(1)

StrictPrefix(p, q) == Len(p) < Len(q) /\ SubSeq(q, 1, Len(p)) = p

HasRepeat(path) == \E i, j \in DOMAIN path : i < j /\ path[i] = path[j]

\* C1: reduceNoise is idempotent: run on its own output it returns the same
\* flows, with the same scores, in the same order.
C1_Idempotent == pc = "recleaned" => recleanedFlows = cleanedFlows

C1_Witness ==
  /\ pc = "recleaned"
  /\ Len(rawFlows) = 2
  /\ Len(recleanedFlows) = 2
  /\ recleanedFlows[1].score = recleanedFlows[2].score

C3_NoStrictPrefix ==
  Reduced =>
    \A i, j \in DOMAIN cleanedFlows :
       ~StrictPrefix(cleanedFlows[i].path, cleanedFlows[j].path)

C3_Witness ==
  /\ pc = "cleaned"
  /\ \E i, j \in DOMAIN rawFlows :
        /\ StrictPrefix(rawFlows[i].path, rawFlows[j].path)
        /\ rawFlows[j].path \in Paths(cleanedFlows)
        /\ rawFlows[i].path \notin Paths(cleanedFlows)
        /\ KeepsGeneric(rawFlows[i], pages)
        /\ ~HasRepeat(rawFlows[i].path)

\* C4: no flow of the final output has a path in which a URL occurs more
\* than once.
C4_NoRepeatedUrl ==
  Reduced => \A i \in DOMAIN cleanedFlows : ~HasRepeat(cleanedFlows[i].path)

C4_Witness ==
  /\ pc = "cleaned"
  /\ Len(rawFlows) = 1
  /\ HasRepeat(rawFlows[1].path)
  /\ rawFlows[1].path[1] # rawFlows[1].path[Len(rawFlows[1].path)]
  /\ KeepsGeneric(rawFlows[1], pages)
  /\ cleanedFlows = <<>>

\* C5: the score of every surviving flow is lengthScore + diversityScore +
\* goalBonus + typeScore + textBonus as the scoring table gives them, and
\* scoring the flow again against the same pages gives the same value.
C5_ExpectedScore(flow) ==
  LET n == Len(flow.path)
      typesOnPath == { PageTypeOf(pages, flow.path[i]) : i \in 1..n }
      lengthScore == IF n = 2 THEN 25 ELSE IF 10 * n < 50 THEN 10 * n ELSE 50
      diversityScore == 5 * Cardinality(typesOnPath)
      goalBonus == IF typesOnPath \cap {"checkout", "contact", "login", "signup"} # {}
                   THEN 20 ELSE 0
      typeScore == IF flow.type = "ecommerce" THEN 30
                   ELSE IF flow.type = "authentication" THEN 25
                   ELSE IF flow.type = "support" THEN 20
                   ELSE IF flow.type = "navigation" THEN 15
                   ELSE IF flow.type = "content" THEN 10
                   ELSE 0
      textBonus == 5
  IN lengthScore + diversityScore + goalBonus + typeScore + textBonus

C6_StableRanking ==
  Reduced =>
    LET entering == FilteredFlows(rawFlows, pages)
        pos(path) == CHOOSE k \in DOMAIN entering : entering[k].path = path
    IN /\ Len(cleanedFlows) = Len(entering)
       /\ Paths(cleanedFlows) = Paths(entering)
       /\ \A i, j \in DOMAIN cleanedFlows :
            i < j =>
              /\ cleanedFlows[i].score >= cleanedFlows[j].score
              /\ cleanedFlows[i].score = cleanedFlows[j].score
                   => pos(cleanedFlows[i].path) < pos(cleanedFlows[j].path)

C6_Witness ==
  /\ pc = "cleaned"
  /\ Len(cleanedFlows) = 2
  /\ cleanedFlows[1].score = cleanedFlows[2].score
  /\ cleanedFlows[1].type # cleanedFlows[2].type
  /\ cleanedFlows[1].path = rawFlows[1].path

C6_WitnessReordered ==
  /\ pc = "cleaned"
  /\ Len(cleanedFlows) = 2
  /\ cleanedFlows[1].score > cleanedFlows[2].score
  /\ cleanedFlows[1].path = rawFlows[2].path

\* C7: the generic-content filter rejects a flow exactly when the fraction
\* of its path URLs of page type content is at least 0.9 (2-URL path) or at
\* least 0.7 (3 or more URLs), a URL with no known page counting as
\* non-content; every other flow passes unchanged.
C7_Rejected(flow) ==
  LET n == Len(flow.path)
      known(u) == \E k \in DOMAIN pages : pages[k].url = u
      typeAt(u) == pages[CHOOSE k \in DOMAIN pages : pages[k].url = u].pageType
      content == Cardinality({ i \in 1..n : known(flow.path[i]) /\ typeAt(flow.path[i]) = "content" })
  IN \/ n = 2 /\ 10 * content >= 9 * n
     \/ n >= 3 /\ 10 * content >= 7 * n

C7_WitnessUnknownPage ==
  /\ pc = "cleaned"
  /\ Len(rawFlows) = 1
  /\ Len(rawFlows[1].path) = 6
  /\ Len(pages) = 5
  /\ ContentPageCount(rawFlows[1], pages) = 4
  /\ Len(cleanedFlows) = 1

-----------------------------------------------------------------------------
(* Properties of the flow extractor *)

Extracted == pc \in {"extracted", "cleaned"}

\* C8: extractFlows returns exactly the concatenation of the detector outputs,
\* in detector order, nothing deduplicated, dropped or reordered.
C8_PlainConcatenation ==
  pc = "extracted" => rawFlows = AllFlows(pages, startUrl)

SpecFlowTypes == {"ecommerce", "authentication", "support", "content", "navigation",
                  "connected"}

\* C9 as stated: every flow of the ranked output has a type of the
\* enumeration ecommerce, authentication, support, content, navigation,
\* connected.
C9_SixFlowTypes ==
  pc = "cleaned" =>
    \A i \in DOMAIN cleanedFlows : cleanedFlows[i].type \in SpecFlowTypes

\* C9 amended: every candidate a detector emits and every flow of the ranked
\* output has a type of the enumeration ecommerce, authentication, support,
\* content, navigation, connected, linear; linear is the type of the
\* stack-based linear detector.
C9_SevenFlowTypes ==
  LET all == AllFlows(pages, startUrl)
  IN /\ pc = "extracted" =>
          /\ \A i \in DOMAIN all : all[i].type \in SpecFlowTypes \cup {"linear"}
          /\ \A i \in DOMAIN rawFlows : rawFlows[i].type \in SpecFlowTypes \cup {"linear"}
     /\ pc = "cleaned" =>
          \A i \in DOMAIN cleanedFlows : cleanedFlows[i].type \in SpecFlowTypes \cup {"linear"}

C9_Witness ==
  /\ pc = "cleaned"
  /\ \E i \in DOMAIN cleanedFlows : cleanedFlows[i].type = "linear"

\* C10: every candidate emitted by a detector and every flow of the final
\* output has a path of at least 2 URLs, each a key of the graph of the run.
C10_PathOnGraph ==
  LET keys == { pages[i].url : i \in DOMAIN pages }
      onGraph(flow) == Len(flow.path) >= 2 /\ \A i \in DOMAIN flow.path : flow.path[i] \in keys
      all == AllFlows(pages, startUrl)
  IN /\ pc = "extracted" =>
          /\ keys = DOMAIN buildCompleteGraph(pages)
          /\ \A i \in DOMAIN all : onGraph(all[i])
          /\ \A i \in DOMAIN rawFlows : onGraph(rawFlows[i])
     /\ pc = "cleaned" => \A i \in DOMAIN cleanedFlows : onGraph(cleanedFlows[i])

\* the start URL was not crawled, a page links to a URL that was not
\* crawled, and a three-step flow reaches the output
C10_Witness ==
  /\ pc = "cleaned"
  /\ startUrl = Uncrawled
  /\ \E u \in DOMAIN pages : \E k \in DOMAIN pages[u].links.contextual :
        pages[u].links.contextual[k].href = Uncrawled
  /\ \E i \in DOMAIN cleanedFlows :
        cleanedFlows[i].type = "support" /\ Len(cleanedFlows[i].path) = 3

-----------------------------------------------------------------------------
(* Scenarios on chains of pages *)

\* the URLs and the page types along the chain, from the home page on
ChainUrls ==
  IF pages[1].pageType = "home" THEN [i \in DOMAIN pages |-> pages[i].url]
  ELSE [i \in DOMAIN pages |-> pages[Len(pages) + 1 - i].url]

ChainTypes == [i \in DOMAIN ChainUrls |-> PageTypeOf(pages, ChainUrls[i])]

FlowsOnPath(flows, path) == { i \in DOMAIN flows : flows[i].path = path }

C12_ScenarioB ==
  pc = "cleaned" /\ ChainTypes = <<"home", "product-list", "product-detail", "checkout">> =>
    LET graph == buildCompleteGraph(pages)
        emitted == extractEcommerceFlows(graph, pages, EntryPoints(pages, startUrl))
    IN /\ \E i \in FlowsOnPath(emitted, ChainUrls) : emitted[i].type = "ecommerce"
       /\ \E i \in FlowsOnPath(cleanedFlows, ChainUrls) : cleanedFlows[i].type = "ecommerce"

C12_Witness ==
  /\ pc = "cleaned"
  /\ ChainTypes = <<"home", "product-list", "product-detail", "checkout">>
  /\ Len(ChainUrls) = 4
  /\ cleanedFlows[1].type = "ecommerce"
  /\ cleanedFlows[1].path = ChainUrls

IsContentChain ==
  /\ Len(ChainTypes) >= 4
  /\ ChainTypes[1] = "home"
  /\ \A i \in 2..Len(ChainTypes) : ChainTypes[i] = "content"

\* C13 (scenario C): on a chain of a home page followed by three or more
\* content pages, no flow of the final output has the full chain as its path.
C13_ScenarioC ==
  pc = "cleaned" /\ IsContentChain => FlowsOnPath(cleanedFlows, ChainUrls) = {}

\* the full chain was a candidate handed to the Noise Reducer
C13_Witness ==
  /\ pc = "cleaned"
  /\ IsContentChain
  /\ FlowsOnPath(rawFlows, ChainUrls) # {}

-----------------------------------------------------------------------------
(* Properties of the stages of crawlAndExtractFlows *)

C15_MissingEntryPoint ==
  pc = "extracted" =>
    LET graph == buildCompleteGraph(pages)
        entryPoints == EntryPoints(pages, startUrl)
        isNode(url) == url \in DOMAIN graph
        present == SelectSeq(entryPoints, isNode)
        all == AllFlows(pages, startUrl)
        same(eps) ==
          /\ extractEcommerceFlows(graph, pages, eps) = extractEcommerceFlows(graph, pages, present)
          /\ extractAuthFlows(graph, pages, eps) = extractAuthFlows(graph, pages, present)
          /\ extractSupportFlows(graph, pages, eps) = extractSupportFlows(graph, pages, present)
          /\ extractContentFlows(graph, pages, eps) = extractContentFlows(graph, pages, present)
          /\ extractHubAndSpokeFlows(graph, pages, eps)
               = extractHubAndSpokeFlows(graph, pages, present)
          /\ extractLinearFlows(graph, pages, eps, MinLinearLength)
               = extractLinearFlows(graph, pages, present, MinLinearLength)
    IN /\ \A i \in DOMAIN all : all[i].path[1] \in DOMAIN graph
       /\ same(entryPoints)
       /\ same(Append(present, Uncrawled))
       /\ \A k \in DOMAIN present :
            same(SubSeq(present, 1, k) \o <<Uncrawled>> \o SubSeq(present, k + 1, Len(present)))

\* the start URL was not crawled and heads the entry points; the pattern
\* and the structural detectors found flows from the home page
C15_Witness ==
  /\ pc = "extracted"
  /\ startUrl = Uncrawled
  /\ EntryPoints(pages, startUrl) = <<Uncrawled, 1>>
  /\ \E i \in DOMAIN rawFlows : rawFlows[i].type = "support" /\ rawFlows[i].path[1] = 1
  /\ \E i \in DOMAIN rawFlows : rawFlows[i].type = "navigation" /\ rawFlows[i].path[1] = 1

\* C16: cancellation is observed only at the checks before flow extraction
\* and before noise reduction: a check that finds the signal aborted fails
\* the call with AbortError and no stage runs from then on; a check that
\* finds it not aborted lets the stage start; a stage that started runs to
\* completion whatever the signal is, and nothing else fails the call.
C16_AbortBetweenStages ==
  [][ /\ pc \in {"analyzed", "extracted"} /\ IsAborted(abortSignal) /\ pc' # pc =>
           /\ pc' = "failed" /\ error' = "AbortError"
           /\ rawFlows' = rawFlows /\ cleanedFlows' = cleanedFlows
      /\ pc \in {"analyzed", "extracted"} /\ ~IsAborted(abortSignal) /\ pc' # pc =>
           /\ pc' = (IF pc = "analyzed" THEN "extracting" ELSE "reducing")
           /\ error' = "none"
      /\ pc = "failed" =>
           /\ pc' = "failed" /\ error' = error
           /\ rawFlows' = rawFlows /\ cleanedFlows' = cleanedFlows
      /\ pc # "failed" /\ pc' = "failed" =>
           pc \in {"analyzed", "extracted"} /\ IsAborted(abortSignal)
      /\ pc = "extracting" /\ pc' # pc =>
           pc' = "extracted" /\ error' = "none" /\ rawFlows' = extractFlows(pages, startUrl)
      /\ pc = "reducing" /\ pc' # pc =>
           pc' = "cleaned" /\ error' = "none" /\ cleanedFlows' = reduceNoise(rawFlows, pages)
    ]_vars

\* the signal was aborted after the check before extraction had passed:
\* extraction ran to completion and the check before noise reduction failed
\* the call
C16_Witness ==
  /\ pc = "failed"
  /\ error = "AbortError"
  /\ rawFlows # <<>>
  /\ cleanedFlows = <<>>

\* the signal was aborted after the check before noise reduction had passed:
\* the call completed
C16_WitnessLateAbort ==
  /\ pc = "cleaned"
  /\ IsAborted(abortSignal)
  /\ error = "none"
  /\ cleanedFlows # <<>>

-----------------------------------------------------------------------------
(* Order of the filters of reduceNoise *)

\* the pipeline in the order exact-path dedup, subset removal, circularity
\* removal, generic-content filter
DedupSubsetCircularGeneric(flows, analyzedPages) ==
  removeGenericFlows(removeCircularFlows(removeSubsetFlows(removeDuplicateFlows(flows))),
                     analyzedPages)

\* C18: the flows that reach the scorer in reduceNoise are, in the same
\* order, those of the pipeline exact-path dedup, subset removal,
\* circularity removal, generic-content filter, and the ranked output is the
\* scorer's result on them.
C18_FixedOrderPipeline ==
  pc = "cleaned" =>
    /\ FilteredFlows(rawFlows, pages) = DedupSubsetCircularGeneric(rawFlows, pages)
    /\ cleanedFlows = scoreAndRankFlows(DedupSubsetCircularGeneric(rawFlows, pages), pages)

\* the circularity filter and the generic-content filter each removed a flow
\* the other keeps, and a circular flow had a prefix among the flows
C18_Witness ==
  /\ pc = "cleaned"
  /\ \E i \in DOMAIN rawFlows : IsCircular(rawFlows[i]) /\ KeepsGeneric(rawFlows[i], pages)
  /\ \E i \in DOMAIN rawFlows : ~IsCircular(rawFlows[i]) /\ ~KeepsGeneric(rawFlows[i], pages)

\* a circular flow and its prefix: subset removal drops the prefix before
\* the circularity filter drops the circular flow
C18_WitnessCircularSubsumes ==
  /\ pc = "cleaned"
  /\ \E i, j \in DOMAIN rawFlows :
        /\ IsCircular(rawFlows[i])
        /\ StrictPrefix(rawFlows[j].path, rawFlows[i].path)
        /\ ~IsCircular(rawFlows[j])
        /\ KeepsGeneric(rawFlows[j], pages)
  /\ cleanedFlows = <<>>

-----------------------------------------------------------------------------
(* Edges the pattern detectors follow *)

IsContextualEdge(edge) == edge.linkType = "contextual"

\* C19: every pair of consecutive URLs of a path the type-chain matcher
\* returns (ecommerce and support flows) is joined by a contextual edge.
C19_ContextualEdgesOnly ==
  pc = "extracted" =>
    LET graph == buildCompleteGraph(pages)
        entryPoints == EntryPoints(pages, startUrl)
        flows == extractEcommerceFlows(graph, pages, entryPoints)
                 \o extractSupportFlows(graph, pages, entryPoints)
    IN \A f \in DOMAIN flows : \A i \in 1..(Len(flows[f].path) - 1) :
         \E k \in DOMAIN graph[flows[f].path[i]].edges :
            /\ graph[flows[f].path[i]].edges[k].target = flows[f].path[i + 1]
            /\ IsContextualEdge(graph[flows[f].path[i]].edges[k])

\* the walk C20 describes: forward over contextual edges while the current
\* node has exactly one outgoing contextual edge and its target is not on
\* the path
RECURSIVE C20_Walk(_, _)
C20_Walk(graph, path) ==
  LET contextualEdges == SelectSeq(graph[path[Len(path)]].edges, IsContextualEdge)
  IN IF Len(contextualEdges) = 1 /\ contextualEdges[1].target \notin Range(path)
     THEN C20_Walk(graph, Append(path, contextualEdges[1].target))
     ELSE path

RECURSIVE C20_Expected(_, _)
C20_Expected(graph, entryPoints) ==
  IF entryPoints = <<>> THEN <<>>
  ELSE (IF Head(entryPoints) \in DOMAIN graph
           /\ Len(C20_Walk(graph, <<Head(entryPoints)>>)) >= 3
        THEN <<PatternFlow("content", "Content Exploration Flow",
                           C20_Walk(graph, <<Head(entryPoints)>>))>>
        ELSE <<>>)
       \o C20_Expected(graph, Tail(entryPoints))

\* C20: for each entry point the linear-chain matcher walks forward over
\* contextual edges while the current node has exactly one outgoing
\* contextual edge, stops when that count is not 1 or the next node is on the
\* path, and emits the accumulated path as one content flow if and only if
\* it has at least 3 URLs.
C20_LinearChain ==
  pc = "extracted" =>
    LET graph == buildCompleteGraph(pages)
        entryPoints == EntryPoints(pages, startUrl)
    IN extractContentFlows(graph, pages, entryPoints) = C20_Expected(graph, entryPoints)

-----------------------------------------------------------------------------
(* Termination of the detectors *)

\* what the detector of the search returns for the one entry point
DetectorResult ==
  LET graph == buildCompleteGraph(pages)
  IN CASE search.kind = "ecommerce" ->
            findFlowByPageTypes(graph, startUrl, <<"product-list", "product-detail", "checkout">>,
                                {}, <<>>)
       [] search.kind = "support" ->
            findFlowByPageTypes(graph, startUrl, <<"support", "contact">>, {}, <<>>)
       [] search.kind = "content" ->
            findLinearPaths(graph, startUrl, {}, MinLinearLength, <<>>)
       [] search.kind = "navigation" ->
            extractHubAndSpokeFlows(graph, pages, <<startUrl>>)
       [] search.kind = "linear" ->
            extractLinearFlows(graph, pages, <<startUrl>>, MinLinearLength)

\* the searches taken step by step return what the detectors return, and
\* never exhaust the call stack
SearchReturnsDetectorResult ==
  /\ pc # "failed"
  /\ pc = "searched" =>
       IF search.kind = "connected"
       THEN LET graph == buildCompleteGraph(pages)
                groups == PageGroups(graph, pages)
            IN \E g \in DOMAIN groups : search.result = findConnectedPaths(graph, groups[g])
       ELSE search.result = DetectorResult

\* C17: on every finite page graph, with cycles, back-links to the entry
\* point and self-loops, every detector search terminates and returns.
C17_Terminates == <>(pc = "searched")

\* a type-chain search returned from a graph in which a page links to
\* itself and another page links back to the entry point
C17_Witness ==
  /\ pc = "searched"
  /\ search.kind = "support"
  /\ startUrl = 1
  /\ \E u \in DOMAIN pages : \E k \in DOMAIN pages[u].links.contextual :
        pages[u].links.contextual[k].href = u
  /\ \E u \in DOMAIN pages : \E k \in DOMAIN pages[u].links.contextual :
        u # 1 /\ pages[u].links.contextual[k].href = 1

-----------------------------------------------------------------------------
(* The type-chain matcher *)

\* the target types still to be found after walking path from its first URL:
\* a page of the next target type takes that type off the list
RECURSIVE C21_Remaining(_, _, _)
C21_Remaining(graph, path, targetTypes) ==
  IF path = <<>> THEN targetTypes
  ELSE LET before == C21_Remaining(graph, SubSeq(path, 1, Len(path) - 1), targetTypes)
       IN IF before # <<>> /\ graph[path[Len(path)]].page.pageType = before[1]
          THEN Tail(before)
          ELSE before

\* the position of the first stored edge of u whose target is v
C21_EdgeRank(graph, u, v) ==
  CHOOSE k \in DOMAIN graph[u].edges :
    /\ graph[u].edges[k].target = v
    /\ \A j \in 1..(k - 1) : graph[u].edges[j].target # v

\* the complete matches from entryUrl: paths along edges, no URL twice, whose
\* last page completes the target types
C21_Matches(graph, entryUrl, targetTypes) ==
  { path \in SeqsUpTo(DOMAIN graph, 1, Cardinality(DOMAIN graph)) :
      /\ path[1] = entryUrl
      /\ Cardinality(Range(path)) = Len(path)
      /\ \A i \in 1..(Len(path) - 1) :
            \E k \in DOMAIN graph[path[i]].edges : graph[path[i]].edges[k].target = path[i + 1]
      /\ C21_Remaining(graph, path, targetTypes) = <<>>
      /\ C21_Remaining(graph, SubSeq(path, 1, Len(path) - 1), targetTypes) # <<>> }

\* a depth-first search that tries the edges in stored order reaches path p
\* before path q
C21_TriedBefore(graph, p, q) ==
  \E i \in 2..Min(Len(p), Len(q)) :
    /\ SubSeq(p, 1, i - 1) = SubSeq(q, 1, i - 1)
    /\ C21_EdgeRank(graph, p[i - 1], p[i]) < C21_EdgeRank(graph, q[i - 1], q[i])

\* the flows of one type chain: for each entry point that has a complete
\* match, in the order of the entry points, the match tried first
RECURSIVE C21_Expected(_, _, _, _, _)
C21_Expected(graph, entryPoints, targetTypes, type, name) ==
  IF entryPoints = <<>> THEN <<>>
  ELSE LET matches == C21_Matches(graph, Head(entryPoints), targetTypes)
           first == CHOOSE p \in matches :
                      \A q \in matches \ {p} : C21_TriedBefore(graph, p, q)
       IN (IF matches # {} THEN <<PatternFlow(type, name, first)>> ELSE <<>>)
          \o C21_Expected(graph, Tail(entryPoints), targetTypes, type, name)

C21_Ecommerce == <<"product-list", "product-detail", "checkout">>
C21_Support == <<"support", "contact">>

-----------------------------------------------------------------------------
(* The hub-and-spoke matcher *)

\* the neighbour an edge leads to qualifies as a major section
C22_Qualifies(edge) ==
  \E i \in DOMAIN pages :
    /\ pages[i].url = edge.target
    /\ \/ pages[i].pageType # "content"
       \/ pages[i].title > 10
       \/ edge.text > 5

\* the path of the flow of one qualifying edge of entryUrl
C22_Path(graph, entryUrl, edge) ==
  IF graph[edge.target].edges = <<>> THEN <<entryUrl, edge.target>>
  ELSE <<entryUrl, edge.target, graph[edge.target].edges[1].target>>

\* the paths of the flows of the edges k, k + 1, .. of entryUrl
RECURSIVE C22_EdgePaths(_, _, _)
C22_EdgePaths(graph, entryUrl, k) ==
  IF k > Len(graph[entryUrl].edges) THEN <<>>
  ELSE (IF C22_Qualifies(graph[entryUrl].edges[k])
        THEN <<C22_Path(graph, entryUrl, graph[entryUrl].edges[k])>>
        ELSE <<>>)
       \o C22_EdgePaths(graph, entryUrl, k + 1)

RECURSIVE C22_Expected(_, _)
C22_Expected(graph, entryPoints) ==
  IF entryPoints = <<>> THEN <<>>
  ELSE (IF Head(entryPoints) \in DOMAIN graph
        THEN C22_EdgePaths(graph, Head(entryPoints), 1)
        ELSE <<>>)
       \o C22_Expected(graph, Tail(entryPoints))

\* C22: for each entry point and each of its outgoing edges, in order, whose
\* neighbour qualifies as a major section (page type not content, or title
\* longer than 10 characters, or anchor text longer than 5 characters), the
\* hub-and-spoke matcher emits exactly one navigation flow: [entry, spoke]
\* when the spoke has no outgoing edge, [entry, spoke, t] with t the target
\* of the spoke's first stored edge when it has one; other neighbours yield
\* no flow.
C22_HubAndSpoke ==
  pc = "extracted" =>
    LET graph == buildCompleteGraph(pages)
        entryPoints == EntryPoints(pages, startUrl)
        flows == extractHubAndSpokeFlows(graph, pages, entryPoints)
    IN /\ \A i \in DOMAIN flows : flows[i].type = "navigation"
       /\ [i \in DOMAIN flows |-> flows[i].path] = C22_Expected(graph, entryPoints)

\* scenario D and its neighbours: the home page links to a content page by a
\* short anchor text, which yields no flow, and to a major section without
\* outgoing edges, which yields a flow of two URLs
C22_Witness ==
  /\ pc = "extracted"
  /\ startUrl = 1
  /\ LET graph == buildCompleteGraph(pages)
         flows == extractHubAndSpokeFlows(graph, pages, EntryPoints(pages, startUrl))
     IN /\ Len(graph[1].edges) = 2
        /\ ~C22_Qualifies(graph[1].edges[1])
        /\ C22_Qualifies(graph[1].edges[2])
        /\ graph[graph[1].edges[2].target].edges = <<>>
        /\ Len(flows) = 1
        /\ flows[1].path = <<1, graph[1].edges[2].target>>

\* a spoke with two outgoing edges: the flow is extended by the target of
\* the first
C22_WitnessExtended ==
  /\ pc = "extracted"
  /\ startUrl = 1
  /\ LET graph == buildCompleteGraph(pages)
         flows == extractHubAndSpokeFlows(graph, pages, EntryPoints(pages, startUrl))
     IN /\ Len(graph[2].edges) = 2
        /\ graph[2].edges[1].target = 3
        /\ graph[2].edges[2].target = 1
        /\ Len(flows) = 1
        /\ flows[1].path = <<1, 2, 3>>

-----------------------------------------------------------------------------
(* The connected-path scanner *)

\* consecutive URLs of path are joined by edges of graph
C23_OnEdges(graph, path) ==
  \A n \in 1..(Len(path) - 1) :
    /\ path[n] \in DOMAIN graph
    /\ \E k \in DOMAIN graph[path[n]].edges : graph[path[n]].edges[k].target = path[n + 1]

\* C23: every flow the connected-path scanner emits has type connected and
\* confidence 0.7, a path of at least 2 and at most 5 URLs whose consecutive
\* URLs are joined by graph edges, and its first and last URLs are two
\* different pages of the same page type.
C23_ConnectedFlows ==
  pc = "extracted" =>
    LET graph == buildCompleteGraph(pages)
        flows == extractCustomFlows(graph, pages, EntryPoints(pages, startUrl))
    IN \A i \in DOMAIN flows :
         LET path == flows[i].path
         IN /\ flows[i].type = "connected"
            /\ flows[i].confidence = 7
            /\ Len(path) >= 2 /\ Len(path) <= 5
            /\ C23_OnEdges(graph, path)
            /\ path[1] # path[Len(path)]
            /\ PageTypeOf(pages, path[1]) = PageTypeOf(pages, path[Len(path)])

-----------------------------------------------------------------------------
(* The graph *)

\* the stored edges <<source, position>> of graph whose target is url
C24_EdgesTo(graph, url) ==
  UNION { { <<v, k>> : k \in { n \in DOMAIN graph[v].edges : graph[v].edges[n].target = url } }
          : v \in DOMAIN graph }

\* C24: in the graph built from pages of distinct URLs no stored edge
\* targets a URL that is not a node, links to pages that were not crawled
\* being dropped without an error; the outDegree of each node is the number
\* of edges stored on it and its inDegree is the number of stored edges, over
\* all nodes, whose target it is.
C24_GraphDegrees ==
  pc = "extracted" =>
    LET graph == buildCompleteGraph(pages)
    IN /\ error = "none"
       /\ DOMAIN graph = { pages[i].url : i \in DOMAIN pages }
       /\ \A u \in DOMAIN graph :
            /\ \A k \in DOMAIN graph[u].edges : graph[u].edges[k].target \in DOMAIN graph
            /\ graph[u].outDegree = Len(graph[u].edges)
            /\ graph[u].inDegree = Cardinality(C24_EdgesTo(graph, u))

\* a page has a link to a page that was not crawled and a link to a crawled
\* page; another page is the target of two edges
C24_Witness ==
  /\ pc = "extracted"
  /\ LET graph == buildCompleteGraph(pages)
     IN /\ \E i \in DOMAIN pages :
             /\ \E k \in DOMAIN pages[i].links.contextual :
                   pages[i].links.contextual[k].href = Uncrawled
             /\ graph[pages[i].url].outDegree = 1
             /\ Len(AllLinks(pages[i])) = 2
        /\ \E u \in DOMAIN graph : graph[u].inDegree = 2

\* C25: in the constructed graph each (source, target) pair is represented
\* by at most one edge: several links of a page to one target collapse into
\* a single edge, and no edge list holds two edges with the same target.
C25_OneEdgePerTarget ==
  pc = "extracted" =>
    LET graph == buildCompleteGraph(pages)
    IN \A u \in DOMAIN graph : \A j, k \in DOMAIN graph[u].edges :
         graph[u].edges[j].target = graph[u].edges[k].target => j = k

-----------------------------------------------------------------------------
(* Entry points *)

\* the URLs the rules name: the start URL when one is supplied, the home
\* pages, the pages of depth 0, the pages of depth at most 1 whose URL ends
\* in '/'
C26_Rules ==
  (IF startUrl # NoStartUrl THEN {startUrl} ELSE {})
  \cup { pages[i].url : i \in { k \in DOMAIN pages : pages[k].pageType = "home" } }
  \cup { pages[i].url : i \in { k \in DOMAIN pages : pages[k].depth = 0 } }
  \cup { pages[i].url : i \in { k \in DOMAIN pages :
                                  EndsWithSlash(pages[k].url) /\ pages[k].depth <= 1 } }

\* C26: identifyEntryPoints returns, without duplicates, exactly the start
\* URL when one is supplied, crawled or not, the pages of type home, the
\* pages of depth 0 and the pages of depth at most 1 whose URL ends in '/';
\* when there are none and a start URL was supplied, the entry points used
\* are the start URL alone.
C26_EntryPoints ==
  pc = "extracted" =>
    LET entryPoints == identifyEntryPoints(pages, startUrl)
        used == EntryPoints(pages, startUrl)
    IN /\ Cardinality(Range(entryPoints)) = Len(entryPoints)
       /\ Range(entryPoints) = C26_Rules
       /\ used = IF C26_Rules = {} /\ startUrl # NoStartUrl THEN <<startUrl>> ELSE entryPoints

\* the start URL was not crawled; the home page is at depth 2; the page
\* whose URL ends in '/' is at depth 1 and is an entry point, another page
\* at depth 1 is not
C26_Witness ==
  /\ pc = "extracted"
  /\ startUrl = Uncrawled
  /\ Len(identifyEntryPoints(pages, startUrl)) = 3
  /\ \E i, j, k \in DOMAIN pages :
        /\ pages[i].pageType = "home" /\ pages[i].depth = 2
        /\ pages[j].pageType = "content" /\ pages[j].depth = 1 /\ EndsWithSlash(pages[j].url)
        /\ pages[k].pageType = "content" /\ pages[k].depth = 1 /\ ~EndsWithSlash(pages[k].url)

\* extractFlows was called without a start URL and no page is a root page
C26_WitnessNoStartUrl ==
  /\ pc = "extracted"
  /\ startUrl = NoStartUrl
  /\ EntryPoints(pages, startUrl) = <<>>

-----------------------------------------------------------------------------
(* Journeys kept by reduceNoise *)

\* C27: subset removal never loses a journey: whenever reduceNoise drops a
\* candidate because a longer candidate has its path as a prefix, the ranked
\* output holds a flow whose path has that path as a strict prefix.
C27_NoJourneyLost ==
  pc = "cleaned" =>
    \A i \in DOMAIN rawFlows :
      (\E j \in DOMAIN rawFlows : StrictPrefix(rawFlows[i].path, rawFlows[j].path))
        => \E k \in DOMAIN cleanedFlows : StrictPrefix(rawFlows[i].path, cleanedFlows[k].path)

-----------------------------------------------------------------------------
(* Limits of the crawl *)

\* C28: whatever the links and whichever fetches fail, the list of pages of
\* crawlWebsite, at every point and when it is returned, holds at most
\* maxPages pages, each of depth at most maxDepth; the start URL has depth 0
\* and every other page has the depth of the page its link was found on,
\* plus one.
C28_CrawlLimits ==
  pc \in {"crawling", "fetching", "sleeping", "crawled"} =>
    /\ Len(pages) <= config.maxPages
    /\ \A i \in DOMAIN pages :
         /\ pages[i].depth \in 0..config.maxDepth
         /\ normalizeForVisit(pages[i].url) = normalizeForVisit(startUrl) => pages[i].depth = 0
         /\ IF pages[i].referrer = Null
            THEN pages[i].url = startUrl /\ pages[i].depth = 0
            ELSE \E j \in 1..(i - 1) :
                   /\ pages[j].url = pages[i].referrer
                   /\ pages[i].url \in Range(pages[j].links)
                   /\ pages[i].depth = pages[j].depth + 1

\* the crawl returned with maxPages pages and items left on the queue; a
\* page of depth maxDepth has links, and the fetch of a URL failed
C28_Witness ==
  /\ pc = "crawled"
  /\ config.maxPages = 2
  /\ config.maxDepth = 1
  /\ Len(pages) = 2
  /\ crawlQueue # <<>>
  /\ pages[2].depth = 1
  /\ pages[2].links # <<>>

\* the fetch of a URL failed for good after a retry: the URL is visited and
\* is not among the pages the crawl returned
C28_WitnessFailedFetch ==
  /\ pc = "crawled"
  /\ Len(pages) = 2
  /\ Cardinality(crawlVisited) = 3
  /\ fetch = Null
  /\ pages[2].url = Href(3, "")

\* the crawl returned because the queue ran empty: the links of the deepest
\* pages were not followed
C28_WitnessDepthLimit ==
  /\ pc = "crawled"
  /\ config.maxDepth = 1
  /\ config.maxPages = 3
  /\ crawlQueue = <<>>
  /\ Len(pages) = 2
  /\ \E k \in DOMAIN pages[2].links :
       normalizeForVisit(pages[2].links[k]) \notin crawlVisited

-----------------------------------------------------------------------------
\* the statuses the README names for a retry: 429 and 5xx
C29_RetriedStatus(status) == status = 429 \/ status \in 500..599

\* an attempt of the static fetch has failed with an HTTP error or without a
\* response
C29_AttemptFails == pc = "fetching" /\ pc' \in {"crawling", "sleeping"} /\ pages' = pages

(* C29: a static (axios) fetch that fails with status 429 or any 5xx status
   is retried, with at most maxRetries retries per URL; a failure with any
   other status or on the last attempt is raised without another attempt,
   and an abort is raised without another attempt. *)
C29_RetryPolicy ==
  [][ /\ C29_AttemptFails =>
           /\ fetch.attempt <= config.maxRetries
           /\ pc' = "sleeping" <=>
                (C29_RetriedStatus(fetch'.status) /\ fetch.attempt < config.maxRetries)
      /\ (pc \in {"fetching", "sleeping"} /\ throwIfAborted(abortSignal) # "none") =>
           (pc' = pc \/ pc' = "failed") ]_vars

-----------------------------------------------------------------------------
\* the handler of the extract-flows request has ended and had started a job
C30_JobEnded == pc \in {"answered", "rejected"} /\ res # 400

\* the job was cancelled through POST /api/cancel-crawl
C30_Cancelled == abortSignal # Null /\ abortSignal.aborted

(* C30: once the request of a job started by POST /api/extract-flows has
   ended, by success, by a failure or by cancellation, the job is not in
   activeJobs, its log record has done = true, and the request has been
   answered: 409 on cancellation, else 200 or 500. *)
C30_JobEndsCleanly ==
  C30_JobEnded =>
    /\ requestJobId(jobId) \notin activeJobs
    /\ requestJobId(jobId) \in DOMAIN activeLogs
    /\ activeLogs[requestJobId(jobId)].done
    /\ IF C30_Cancelled THEN res = 409 ELSE res \in {200, 500}

====
